---- MODULE Spec2Model ----
(***************************************************************************)
(* A2DP codec configuration: the codec registry (A2dpCodecs) and the      *)
(* per-codec descriptors (A2dpCodecConfig) of                              *)
(* system/stack/a2dp/a2dp_codec_config.cc.                                 *)
(*                                                                         *)
(* The registry is modelled over a reduced universe of codec indices       *)
(* (three source codecs, two sink codecs) that keeps the relations the     *)
(* code relies on: source indices lie below BTAV_A2DP_CODEC_INDEX_SOURCE_  *)
(* MAX, sink indices between it and BTAV_A2DP_CODEC_INDEX_MAX.             *)
(* A wire buffer is the sequence of its first bytes; p_codec_info[i] of    *)
(* the source is buf[i + 1] here.                                          *)
(***************************************************************************)
EXTENDS Integers, Sequences, FiniteSets, TLC

(***************************************************************************)
(* Enumerations of the headers the file includes.                          *)
(***************************************************************************)
BTAV_A2DP_CODEC_INDEX_SOURCE_SBC == 0
BTAV_A2DP_CODEC_INDEX_SOURCE_AAC == 1
BTAV_A2DP_CODEC_INDEX_SOURCE_OPUS == 2
BTAV_A2DP_CODEC_INDEX_SOURCE_MAX == 3
BTAV_A2DP_CODEC_INDEX_SINK_SBC == 3
BTAV_A2DP_CODEC_INDEX_SINK_AAC == 4
BTAV_A2DP_CODEC_INDEX_MAX == 5
BTAV_A2DP_CODEC_INDEX_MIN == 0

BTAV_A2DP_CODEC_PRIORITY_DISABLED == -1
BTAV_A2DP_CODEC_PRIORITY_DEFAULT == 0

BTAV_A2DP_CODEC_SAMPLE_RATE_NONE == 0
BTAV_A2DP_CODEC_SAMPLE_RATE_44100 == 1
BTAV_A2DP_CODEC_SAMPLE_RATE_48000 == 2
BTAV_A2DP_CODEC_SAMPLE_RATE_88200 == 4
BTAV_A2DP_CODEC_BITS_PER_SAMPLE_NONE == 0
BTAV_A2DP_CODEC_BITS_PER_SAMPLE_16 == 1
BTAV_A2DP_CODEC_CHANNEL_MODE_NONE == 0
BTAV_A2DP_CODEC_CHANNEL_MODE_STEREO == 2

A2DP_MEDIA_CT_SBC == 0
A2DP_MEDIA_CT_AAC == 2
A2DP_MEDIA_CT_NON_A2DP == 255
AVDT_CODEC_TYPE_INDEX == 2

\* The null descriptor pointer.
nullptr == -1

\* Every codec index of the modelled universe.
CodecIndices == BTAV_A2DP_CODEC_INDEX_MIN .. (BTAV_A2DP_CODEC_INDEX_MAX - 1)

(***************************************************************************)
(* Bounds and input domains of the model.                                  *)
(***************************************************************************)
\* Number of registry operations explored after init().
MaxOps == 2

\* A tag byte that is none of SBC, AAC, vendor.
UnknownCodecTag == 4

\* The sets of codec indices for which A2dpCodecConfig::createCodec succeeds
\* (the descriptor's own init() may fail).
CreatableSets ==
  { CodecIndices,
    {BTAV_A2DP_CODEC_INDEX_SOURCE_SBC, BTAV_A2DP_CODEC_INDEX_SOURCE_AAC,
     BTAV_A2DP_CODEC_INDEX_SINK_AAC},
    {BTAV_A2DP_CODEC_INDEX_SOURCE_SBC, BTAV_A2DP_CODEC_INDEX_SINK_SBC} }

\* Priority override tables a registry is constructed with.
PriorityTables ==
  { << >>,
    (BTAV_A2DP_CODEC_INDEX_SOURCE_SBC :> 3500) @@
    (BTAV_A2DP_CODEC_INDEX_SINK_AAC :> BTAV_A2DP_CODEC_PRIORITY_DISABLED) }

\* Priorities a caller passes in a user configuration.
UserPriorities == {BTAV_A2DP_CODEC_PRIORITY_DEFAULT, 500, 2500}

VARIABLES
  codec_priorities_,         \* A2dpCodecs: the priority override table
  initialized,               \* whether A2dpCodecs::init() has run
  indexed_codecs_,           \* A2dpCodecs: indices of the enabled descriptors
  disabled_codecs_,          \* A2dpCodecs: indices of the disabled descriptors
  ordered_source_codecs_,    \* A2dpCodecs: list of source descriptors
  ordered_sink_codecs_,      \* A2dpCodecs: list of sink descriptors
  current_codec_config_,     \* A2dpCodecs: the current descriptor, or nullptr
  codec_priority_,           \* per descriptor: A2dpCodecConfig::codec_priority_
  default_codec_priority_,   \* per descriptor: default_codec_priority_
  codec_config_,             \* per descriptor: the negotiated configuration
  codec_user_config_,        \* per descriptor: the user configuration
  codec_audio_config_,       \* per descriptor: the audio configuration
  ota_codec_config_,         \* per descriptor: the wire configuration bytes
  call,                      \* the last registry call: arguments, locals, results
  nops,                      \* number of registry operations made so far
  codec_local_capability_,   \* per descriptor: what the codec can do locally
  codec_selectable_capability_, \* per descriptor: local and peer capability
  codec_mutex_,              \* per object: owner and depth of its codec_mutex_
  thread,                    \* per calling thread: its call, position, locals
  p_a2dp_offload,            \* the offload structure a caller hands in
  codec_info_buffers,        \* codec information buffers a caller hands in
  dispatch                   \* what the dispatch functions returned for them

regvars == << codec_priorities_, initialized, indexed_codecs_, disabled_codecs_,
              ordered_source_codecs_, ordered_sink_codecs_, current_codec_config_ >>
descvars == << codec_priority_, default_codec_priority_, codec_config_,
               codec_user_config_, codec_audio_config_, ota_codec_config_ >>
capvars == << codec_local_capability_, codec_selectable_capability_ >>
lockvars == << codec_mutex_, thread >>
bufvars == << p_a2dp_offload, codec_info_buffers, dispatch >>
vars == << regvars, descvars, call, nops, capvars, lockvars, bufvars >>

(***************************************************************************)
(* btav_a2dp_codec_config_t and wire buffers.                              *)
(***************************************************************************)
\* init_btav_a2dp_codec_config: memset to zero, then type and priority.
init_btav_a2dp_codec_config(codec_index, codec_priority) ==
  [ codec_type |-> codec_index,
    codec_priority |-> codec_priority,
    sample_rate |-> 0,
    bits_per_sample |-> 0,
    channel_mode |-> 0,
    codec_specific_1 |-> 0,
    codec_specific_2 |-> 0,
    codec_specific_3 |-> 0,
    codec_specific_4 |-> 0 ]

\* A buffer the constructor left unset, holding a type tag of no codec.
ZeroCodecInfo_Unset == <<0, 0, UnknownCodecTag, 0>>

\* memset(ota_codec_config_, 0, ...): losc, media type, codec type, parameters.
ZeroCodecInfo == <<0, 0, 0, 0>>

\* A wire buffer of codec type `tag` whose parameter byte is `rates`.
CodecInfo(tag, rates) == <<3, 0, tag, rates>>

A2DP_GetCodecType(p_codec_info) == p_codec_info[AVDT_CODEC_TYPE_INDEX + 1]

(***************************************************************************)
(* Capability dispatch on the type tag.                                    *)
(***************************************************************************)
\* The codec-specific index lookups, which live with each codec family.
A2DP_SourceCodecIndexSbc(p_codec_info) == BTAV_A2DP_CODEC_INDEX_SOURCE_SBC
A2DP_SourceCodecIndexAac(p_codec_info) == BTAV_A2DP_CODEC_INDEX_SOURCE_AAC
A2DP_VendorSourceCodecIndex(p_codec_info) == BTAV_A2DP_CODEC_INDEX_SOURCE_OPUS
A2DP_SinkCodecIndexSbc(p_codec_info) == BTAV_A2DP_CODEC_INDEX_SINK_SBC
A2DP_SinkCodecIndexAac(p_codec_info) == BTAV_A2DP_CODEC_INDEX_SINK_AAC
A2DP_VendorSinkCodecIndex(p_codec_info) == BTAV_A2DP_CODEC_INDEX_MAX

A2DP_SourceCodecIndex(p_codec_info) ==
  LET codec_type == A2DP_GetCodecType(p_codec_info) IN
  CASE codec_type = A2DP_MEDIA_CT_SBC -> A2DP_SourceCodecIndexSbc(p_codec_info)
    [] codec_type = A2DP_MEDIA_CT_AAC -> A2DP_SourceCodecIndexAac(p_codec_info)
    [] codec_type = A2DP_MEDIA_CT_NON_A2DP -> A2DP_VendorSourceCodecIndex(p_codec_info)
    [] OTHER -> BTAV_A2DP_CODEC_INDEX_MAX

A2DP_SinkCodecIndex(p_codec_info) ==
  LET codec_type == A2DP_GetCodecType(p_codec_info) IN
  CASE codec_type = A2DP_MEDIA_CT_SBC -> A2DP_SinkCodecIndexSbc(p_codec_info)
    [] codec_type = A2DP_MEDIA_CT_AAC -> A2DP_SinkCodecIndexAac(p_codec_info)
    [] codec_type = A2DP_MEDIA_CT_NON_A2DP -> A2DP_VendorSinkCodecIndex(p_codec_info)
    [] OTHER -> BTAV_A2DP_CODEC_INDEX_MAX

\* Full equality of two buffers of one codec family: the type and every
\* parameter byte.
A2DP_CodecEqualsFamily(p_codec_info_a, p_codec_info_b) ==
  /\ p_codec_info_a[3] = p_codec_info_b[3]
  /\ p_codec_info_a[4] = p_codec_info_b[4]

\* An equality that looks at the codec type only.
A2DP_CodecEquals_TypeOnly(p_codec_info_a, p_codec_info_b) ==
  A2DP_GetCodecType(p_codec_info_a) = A2DP_GetCodecType(p_codec_info_b)

A2DP_CodecEquals(p_codec_info_a, p_codec_info_b) ==
  LET codec_type_a == A2DP_GetCodecType(p_codec_info_a)
      codec_type_b == A2DP_GetCodecType(p_codec_info_b)
  IN IF codec_type_a # codec_type_b THEN FALSE
     ELSE CASE codec_type_a = A2DP_MEDIA_CT_SBC ->
                 A2DP_CodecEqualsFamily(p_codec_info_a, p_codec_info_b)
            [] codec_type_a = A2DP_MEDIA_CT_AAC ->
                 A2DP_CodecEqualsFamily(p_codec_info_a, p_codec_info_b)
            [] codec_type_a = A2DP_MEDIA_CT_NON_A2DP ->
                 A2DP_CodecEqualsFamily(p_codec_info_a, p_codec_info_b)
            [] OTHER -> FALSE

(***************************************************************************)
(* A2dpCodecConfig: one descriptor.                                        *)
(***************************************************************************)
\* The value setDefaultCodecPriority() gives codec_priority_.
setDefaultCodecPriority(codec_index, default_priority) ==
  IF default_priority # BTAV_A2DP_CODEC_PRIORITY_DEFAULT
  THEN default_priority
  ELSE 1000 * (codec_index + 1) + 1

\* A setCodecPriority that stores the priority it is given.
setCodecPriority_Direct(codec_index, default_priority, codec_priority) ==
  codec_priority

\* The value setCodecPriority(codec_priority) gives codec_priority_.
setCodecPriority(codec_index, default_priority, codec_priority) ==
  IF codec_priority = BTAV_A2DP_CODEC_PRIORITY_DEFAULT
  THEN setDefaultCodecPriority(codec_index, default_priority)
  ELSE codec_priority

\* An emptiness test that does not look at the priority.
isCodecConfigEmpty_IgnorePriority(codec_config) ==
  /\ codec_config.sample_rate = BTAV_A2DP_CODEC_SAMPLE_RATE_NONE
  /\ codec_config.bits_per_sample = BTAV_A2DP_CODEC_BITS_PER_SAMPLE_NONE
  /\ codec_config.channel_mode = BTAV_A2DP_CODEC_CHANNEL_MODE_NONE
  /\ codec_config.codec_specific_1 = 0
  /\ codec_config.codec_specific_2 = 0
  /\ codec_config.codec_specific_3 = 0
  /\ codec_config.codec_specific_4 = 0

\* A2dpCodecConfig::isCodecConfigEmpty.
isCodecConfigEmpty(codec_config) ==
  /\ codec_config.codec_priority = BTAV_A2DP_CODEC_PRIORITY_DEFAULT
  /\ codec_config.sample_rate = BTAV_A2DP_CODEC_SAMPLE_RATE_NONE
  /\ codec_config.bits_per_sample = BTAV_A2DP_CODEC_BITS_PER_SAMPLE_NONE
  /\ codec_config.channel_mode = BTAV_A2DP_CODEC_CHANNEL_MODE_NONE
  /\ codec_config.codec_specific_1 = 0
  /\ codec_config.codec_specific_2 = 0
  /\ codec_config.codec_specific_3 = 0
  /\ codec_config.codec_specific_4 = 0

\* The media codec type a descriptor of this index writes and accepts.
CodecFamily(codec_index) ==
  CASE codec_index \in {BTAV_A2DP_CODEC_INDEX_SOURCE_SBC,
                        BTAV_A2DP_CODEC_INDEX_SINK_SBC} -> A2DP_MEDIA_CT_SBC
    [] codec_index \in {BTAV_A2DP_CODEC_INDEX_SOURCE_AAC,
                        BTAV_A2DP_CODEC_INDEX_SINK_AAC} -> A2DP_MEDIA_CT_AAC
    [] OTHER -> A2DP_MEDIA_CT_NON_A2DP

\* The sample rates named by a rate byte.
RateBits(rates) ==
  { b \in {BTAV_A2DP_CODEC_SAMPLE_RATE_44100, BTAV_A2DP_CODEC_SAMPLE_RATE_48000,
           BTAV_A2DP_CODEC_SAMPLE_RATE_88200} : (rates \div b) % 2 = 1 }

\* What every modelled codec can do locally.
LocalSampleRates ==
  {BTAV_A2DP_CODEC_SAMPLE_RATE_44100, BTAV_A2DP_CODEC_SAMPLE_RATE_48000}

\* The sample rate the negotiation selects: the user's when the peer and we
\* support it, else the audio pipeline's, else the best common one.
SelectSampleRate(user_config, audio_config, peer_rates) ==
  LET common == RateBits(peer_rates) \cap LocalSampleRates IN
  IF user_config.sample_rate \in common THEN user_config.sample_rate
  ELSE IF audio_config.sample_rate \in common THEN audio_config.sample_rate
  ELSE IF BTAV_A2DP_CODEC_SAMPLE_RATE_44100 \in common
       THEN BTAV_A2DP_CODEC_SAMPLE_RATE_44100
  ELSE IF BTAV_A2DP_CODEC_SAMPLE_RATE_48000 \in common
       THEN BTAV_A2DP_CODEC_SAMPLE_RATE_48000
  ELSE BTAV_A2DP_CODEC_SAMPLE_RATE_NONE

\* The codec-specific (virtual) setCodecConfig: d is the descriptor's
\* snapshots. It fails, leaving the snapshots as they were, when the peer
\* bytes are not of this codec's type or no sample rate is common. On success
\* p_result_codec_config is a copy of the new ota_codec_config_.
A2dpCodecConfig_setCodecConfig(codec_index, d, p_peer_codec_info, is_capability) ==
  LET rate == SelectSampleRate(d.codec_user_config, d.codec_audio_config,
                               p_peer_codec_info[4])
      user == d.codec_user_config
  IN IF \/ A2DP_GetCodecType(p_peer_codec_info) # CodecFamily(codec_index)
        \/ rate = BTAV_A2DP_CODEC_SAMPLE_RATE_NONE
     THEN [success |-> FALSE, d |-> d, p_result_codec_config |-> ZeroCodecInfo]
     ELSE [success |-> TRUE,
           p_result_codec_config |-> CodecInfo(CodecFamily(codec_index), rate),
           d |-> [d EXCEPT
             !.codec_config =
               [@ EXCEPT !.sample_rate = rate,
                         !.bits_per_sample = BTAV_A2DP_CODEC_BITS_PER_SAMPLE_16,
                         !.channel_mode = BTAV_A2DP_CODEC_CHANNEL_MODE_STEREO,
                         !.codec_specific_1 =
                            IF user.codec_specific_1 # 0 THEN user.codec_specific_1 ELSE @,
                         !.codec_specific_2 =
                            IF user.codec_specific_2 # 0 THEN user.codec_specific_2 ELSE @,
                         !.codec_specific_3 =
                            IF user.codec_specific_3 # 0 THEN user.codec_specific_3 ELSE @,
                         !.codec_specific_4 =
                            IF user.codec_specific_4 # 0 THEN user.codec_specific_4 ELSE @],
             !.ota_codec_config = CodecInfo(CodecFamily(codec_index), rate)]]

\* A comparison that leaves out the sample rate.
AudioFormatChanged_NoSampleRate(saved_codec_config, new_codec_config) ==
  \/ saved_codec_config.bits_per_sample # new_codec_config.bits_per_sample
  \/ saved_codec_config.channel_mode # new_codec_config.channel_mode
  \/ saved_codec_config.codec_specific_1 # new_codec_config.codec_specific_1
  \/ saved_codec_config.codec_specific_2 # new_codec_config.codec_specific_2
  \/ saved_codec_config.codec_specific_3 # new_codec_config.codec_specific_3

\* Whether the audio format differs between two configurations.
AudioFormatChanged(saved_codec_config, new_codec_config) ==
  \/ saved_codec_config.sample_rate # new_codec_config.sample_rate
  \/ saved_codec_config.bits_per_sample # new_codec_config.bits_per_sample
  \/ saved_codec_config.channel_mode # new_codec_config.channel_mode
  \/ saved_codec_config.codec_specific_1 # new_codec_config.codec_specific_1
  \/ saved_codec_config.codec_specific_2 # new_codec_config.codec_specific_2
  \/ saved_codec_config.codec_specific_3 # new_codec_config.codec_specific_3

\* A failure path that restores nothing.
RestoreUserAudioConfig_None(d, saved) == d

\* The failure path of A2dpCodecConfig::setCodecUserConfig: the user and audio
\* configurations saved on entry are put back into the snapshots d.
RestoreUserAudioConfig(d, saved) ==
  [d EXCEPT !.codec_user_config = saved.codec_user_config,
            !.codec_audio_config = saved.codec_audio_config]

\* A2dpCodecConfig::setCodecUserConfig on the descriptor with snapshots d.
A2dpCodecConfig_setCodecUserConfig(codec_index, d, codec_user_config, codec_audio_config, p_peer_codec_info, is_capability) ==
  LET saved_codec_config == d.codec_config
      saved_ota_codec_config == d.ota_codec_config
      d1 == [d EXCEPT !.codec_user_config = codec_user_config,
                      !.codec_audio_config = codec_audio_config]
      r == A2dpCodecConfig_setCodecConfig(codec_index, d1, p_peer_codec_info,
                                          is_capability)
  IN IF ~r.success
     THEN [success |-> FALSE,
           saved_codec_config |-> saved_codec_config,
           saved_ota_codec_config |-> saved_ota_codec_config,
           d |-> RestoreUserAudioConfig(r.d, d),
           restart_input |-> FALSE, restart_output |-> FALSE,
           config_updated |-> FALSE]
     ELSE LET restart_input == AudioFormatChanged(saved_codec_config, r.d.codec_config)
              restart_output ==
                ~A2DP_CodecEquals(saved_ota_codec_config, r.p_result_codec_config)
          IN [success |-> TRUE, d |-> r.d,
              saved_codec_config |-> saved_codec_config,
              saved_ota_codec_config |-> saved_ota_codec_config,
              restart_input |-> restart_input,
              restart_output |-> restart_output,
              config_updated |-> (restart_input \/ restart_output)]

\* The snapshots of descriptor codec_index in the current state.
Descriptor(codec_index) ==
  [ codec_config |-> codec_config_[codec_index],
    codec_user_config |-> codec_user_config_[codec_index],
    codec_audio_config |-> codec_audio_config_[codec_index],
    ota_codec_config |-> ota_codec_config_[codec_index] ]

\* compare_codec_priority over the priorities prio.
compare_codec_priority(prio, lhs, rhs) ==
  IF prio[lhs] > prio[rhs] THEN TRUE
  ELSE IF prio[lhs] < prio[rhs] THEN FALSE
  ELSE lhs > rhs

\* std::list::sort(compare_codec_priority).
sort(list, prio) ==
  SortSeq(list, LAMBDA lhs, rhs : compare_codec_priority(prio, lhs, rhs))

(***************************************************************************)
(* A2dpCodecs: the registry.                                               *)
(***************************************************************************)
\* The record of a call before anything of it is known.
NoCall ==
  [ opus_enabled |-> FALSE,
    op |-> "none", ret |-> FALSE,
    restart_input |-> FALSE, restart_output |-> FALSE, config_updated |-> FALSE,
    d_restart_input |-> FALSE, d_restart_output |-> FALSE,
    d_config_updated |-> FALSE,
    codec_type |-> BTAV_A2DP_CODEC_INDEX_MAX,
    a2dp_codec_config |-> nullptr,
    last_codec_config |-> nullptr,
    old_priority |-> BTAV_A2DP_CODEC_PRIORITY_DEFAULT,
    select_current_codec |-> FALSE,
    user_codec_priority |-> BTAV_A2DP_CODEC_PRIORITY_DEFAULT,
    codec_user_config |->
      init_btav_a2dp_codec_config(BTAV_A2DP_CODEC_INDEX_MAX,
                                  BTAV_A2DP_CODEC_PRIORITY_DEFAULT),
    p_peer_codec_info |-> ZeroCodecInfo,
    repeated |-> FALSE,
    saved_codec_config |->
      init_btav_a2dp_codec_config(BTAV_A2DP_CODEC_INDEX_MAX,
                                  BTAV_A2DP_CODEC_PRIORITY_DEFAULT),
    saved_ota_codec_config |-> ZeroCodecInfo,
    peer_codec_type |-> A2DP_MEDIA_CT_SBC ]

\* Peer buffers handed to the registry.
PeerCodecInfos ==
  { CodecInfo(A2DP_MEDIA_CT_SBC, 3), CodecInfo(A2DP_MEDIA_CT_AAC, 3),
    CodecInfo(A2DP_MEDIA_CT_NON_A2DP, 3), CodecInfo(A2DP_MEDIA_CT_AAC, 4),
    CodecInfo(UnknownCodecTag, 3) }

\* User configurations handed to the registry.
UserConfigs ==
  { [ init_btav_a2dp_codec_config(t, f[1]) EXCEPT !.sample_rate = f[2],
                                                  !.codec_specific_4 = f[3] ] :
      t \in BTAV_A2DP_CODEC_INDEX_MIN .. BTAV_A2DP_CODEC_INDEX_MAX,
      f \in ( { <<p, BTAV_A2DP_CODEC_SAMPLE_RATE_NONE, 0>> : p \in UserPriorities }
              \cup { <<BTAV_A2DP_CODEC_PRIORITY_DEFAULT,
                       BTAV_A2DP_CODEC_SAMPLE_RATE_48000, 0>>,
                     <<BTAV_A2DP_CODEC_PRIORITY_DEFAULT,
                       BTAV_A2DP_CODEC_SAMPLE_RATE_NONE, 1>> } ) }

\* Audio configurations handed to the registry.
AudioConfigs ==
  { [ init_btav_a2dp_codec_config(BTAV_A2DP_CODEC_INDEX_SOURCE_SBC,
                                  BTAV_A2DP_CODEC_PRIORITY_DEFAULT)
        EXCEPT !.sample_rate = r ] :
      r \in {BTAV_A2DP_CODEC_SAMPLE_RATE_NONE, BTAV_A2DP_CODEC_SAMPLE_RATE_48000} }

EmptyMap == [ i \in {} |-> 0 ]

\* The call sites of the registry: the negotiation/control path and the
\* session/offload-setup path.
Threads == {"negotiation", "session"}

\* The objects that have a codec_mutex_: the registry and each descriptor.
A2dpCodecs == BTAV_A2DP_CODEC_INDEX_MAX
Objects == CodecIndices \cup {A2dpCodecs}

\* A std::recursive_mutex nobody holds.
NoThread == "none"
Unlocked == [ owner |-> NoThread, count |-> 0 ]

\* A thread that is in no call: the call and its arguments, the position in
\* it, the local last_codec_config, the object whose mutex a nested call
\* holds, and what the call returned.
NoThreadCall ==
  [ pc |-> "idle", op |-> "none",
    codec_user_config |->
      init_btav_a2dp_codec_config(BTAV_A2DP_CODEC_INDEX_MAX,
                                  BTAV_A2DP_CODEC_PRIORITY_DEFAULT),
    p_peer_codec_info |-> ZeroCodecInfo,
    codec_index |-> BTAV_A2DP_CODEC_INDEX_MAX,
    last_codec_config |-> nullptr, nested |-> nullptr,
    ret |-> FALSE, restart_input |-> FALSE, restart_output |-> FALSE,
    config_updated |-> FALSE ]

(***************************************************************************)
(* The offload structure and the layouts getCodecSpecificConfig reads and  *)
(* writes.  The named constants below are declared in the codecs' headers, *)
(* outside this file; the bit fields of one byte are disjoint, the tier    *)
(* codes are pairwise distinct, and the 16-bit tiers use both bytes.       *)
(***************************************************************************)
\* sizeof(tBT_A2DP_OFFLOAD::codec_info).
OffloadSize == 32
ZeroOffload ==
  [ codec_info |-> [ k \in 0 .. (OffloadSize - 1) |-> 0 ],
    called |-> FALSE, ret |-> FALSE,
    handed |-> [ k \in 0 .. (OffloadSize - 1) |-> 0 ] ]

A2DP_LDAC_VENDOR_ID == 301
A2DP_LDAC_CODEC_ID == 170
A2DP_LDAC_QUALITY_HIGH == 0
A2DP_LDAC_QUALITY_MID == 1
A2DP_LDAC_QUALITY_LOW == 2
A2DP_LDAC_QUALITY_ABR_OFFLOAD == 127

A2DP_LHDC_VENDOR_ID == 1338
A2DP_LHDCV2_CODEC_ID == 19506
A2DP_LHDCV3_CODEC_ID == 19507
A2DP_LHDCV5_CODEC_ID == 19509

\* LHDC V2 and V3, byte 9.
A2DP_LHDC_FEATURE_JAS == 64
A2DP_LHDC_FEATURE_AR == 128
\* LHDC V2 and V3, byte 10.
A2DP_LHDC_VERSION_MASK == 15
A2DP_LHDC_VER2 == 1
A2DP_LHDC_VER3 == 1
A2DP_LHDC_VER6 == 8
A2DP_LHDC_MAX_BIT_RATE_MASK == 48
A2DP_LHDC_MAX_BIT_RATE_900K == 0
A2DP_LHDC_MAX_BIT_RATE_500K == 16
A2DP_LHDC_MAX_BIT_RATE_400K == 32
A2DP_LHDC_LL_MASK == 64
A2DP_LHDC_FEATURE_LLAC == 128
\* LHDC V2 and V3, byte 11.
A2DP_LHDC_CH_SPLIT_MSK == 15
A2DP_LHDC_CH_SPLIT_NONE == 1
A2DP_LHDC_CH_SPLIT_TWS == 2
A2DP_LHDC_FEATURE_META == 16
A2DP_LHDC_FEATURE_MIN_BR == 32
A2DP_LHDC_FEATURE_LHDCV4 == 128

\* LHDC V5, byte 10.
A2DP_LHDCV5_MAX_BIT_RATE_MASK == 48
A2DP_LHDCV5_MAX_BIT_RATE_900K == 0
A2DP_LHDCV5_MAX_BIT_RATE_500K == 16
A2DP_LHDCV5_MAX_BIT_RATE_400K == 32
A2DP_LHDCV5_MIN_BIT_RATE_MASK == 192
A2DP_LHDCV5_MIN_BIT_RATE_64K == 192
A2DP_LHDCV5_MIN_BIT_RATE_128K == 128
A2DP_LHDCV5_MIN_BIT_RATE_256K == 64
\* LHDC V5, byte 11.
A2DP_LHDCV5_VERSION_MASK == 15
A2DP_LHDCV5_VER_1 == 1
A2DP_LHDCV5_FRAME_LEN_MASK == 16
\* LHDC V5, bytes 12 and 13.
A2DP_LHDCV5_FEATURE_AR == 1
A2DP_LHDCV5_FEATURE_JAS == 2
A2DP_LHDCV5_FEATURE_META == 4
A2DP_LHDCV5_FEATURE_LL == 64
A2DP_LHDCV5_AR_ON == 1

\* The quality tier in the low four bits of codec_specific_1.
A2DP_LHDC_QUALITY_LOW0 == 0
A2DP_LHDC_QUALITY_LOW1 == 1
A2DP_LHDC_QUALITY_LOW2 == 2
A2DP_LHDC_QUALITY_LOW3 == 3
A2DP_LHDC_QUALITY_LOW4 == 4
A2DP_LHDC_QUALITY_LOW == 5
A2DP_LHDC_QUALITY_MID == 6
A2DP_LHDC_QUALITY_HIGH == 7
A2DP_LHDC_QUALITY_HIGH1 == 8
A2DP_LHDC_QUALITY_ABR == 9

\* The offload structure's fields for the LHDC family.
A2DP_OFFLOAD_LHDC_CFG_VER == 6
A2DP_OFFLOAD_LHDC_CFG_BITRATE_L == 7
A2DP_OFFLOAD_LHDC_CFG_BITRATE_H == 8
A2DP_OFFLOAD_LHDC_CFG_MAXBITRATE_L == 9
A2DP_OFFLOAD_LHDC_CFG_MAXBITRATE_H == 10
A2DP_OFFLOAD_LHDC_CFG_MINBITRATE_L == 11
A2DP_OFFLOAD_LHDC_CFG_MINBITRATE_H == 12
A2DP_OFFLOAD_LHDC_CFG_FRAMEDUR == 13
A2DP_OFFLOAD_LHDC_CFG_INTERVAL == 14
A2DP_OFFLOAD_LHDC_CFG_SPEC1 == 15
A2DP_OFFLOAD_LHDC_CFG_SPEC2 == 16

A2DP_OFFLOAD_LHDCV2_VER_1 == 1
A2DP_OFFLOAD_LHDCV3_V3_ONLY == 2
A2DP_OFFLOAD_LHDCV3_V4_ONLY == 3
A2DP_OFFLOAD_LHDCV3_LLAC == 4
A2DP_OFFLOAD_LHDCV5_VER_1 == 5

A2DP_OFFLOAD_LHDC_QUALITY_LOW0 == 64
A2DP_OFFLOAD_LHDC_QUALITY_LOW1 == 128
A2DP_OFFLOAD_LHDC_QUALITY_LOW2 == 192
A2DP_OFFLOAD_LHDC_QUALITY_LOW3 == 256
A2DP_OFFLOAD_LHDC_QUALITY_LOW4 == 320
A2DP_OFFLOAD_LHDC_QUALITY_LOW == 400
A2DP_OFFLOAD_LHDC_QUALITY_MID == 500
A2DP_OFFLOAD_LHDC_QUALITY_HIGH == 900
A2DP_OFFLOAD_LHDC_QUALITY_HIGH1 == 1000
A2DP_OFFLOAD_LHDC_QUALITY_ABR == 32768

A2DP_OFFLOAD_LHDC_DATA_INTERVAL_10MS == 10
A2DP_OFFLOAD_LHDC_DATA_INTERVAL_20MS == 20
A2DP_OFFLOAD_LHDC_FRAME_DURATION_5000US == 50
A2DP_OFFLOAD_LHDC_SPECIFIC_FEATURE_JAS == 1
A2DP_OFFLOAD_LHDC_SPECIFIC_FEATURE_AR == 2
A2DP_OFFLOAD_LHDC_SPECIFIC_FEATURE_META == 4
A2DP_OFFLOAD_LHDC_SPECIFIC_FEATURE_SPLIT == 1
A2DP_OFFLOAD_LHDC_SPECIFIC_ACTION_AR_ON == 1

\* The bitwise & and | of two unsigned values.
RECURSIVE BitAnd(_, _)
BitAnd(a, b) ==
  IF a = 0 \/ b = 0 THEN 0
  ELSE (a % 2) * (b % 2) + 2 * BitAnd(a \div 2, b \div 2)

RECURSIVE BitOr(_, _)
BitOr(a, b) ==
  IF a = 0 THEN b
  ELSE IF b = 0 THEN a
  ELSE (IF a % 2 = 1 \/ b % 2 = 1 THEN 1 ELSE 0) + 2 * BitOr(a \div 2, b \div 2)

\* codec_config[k] of a wire buffer; the bytes after the information
\* element are zero.
At(p_codec_info, k) ==
  IF k + 1 <= Len(p_codec_info) THEN p_codec_info[k + 1] ELSE 0

\* A2DP_VendorCodecGetVendorId: the four bytes after the codec type, little
\* endian.
A2DP_VendorCodecGetVendorId(p_codec_info) ==
  At(p_codec_info, 3) + 256 * At(p_codec_info, 4)
    + 65536 * At(p_codec_info, 5) + 16777216 * At(p_codec_info, 6)

\* A2DP_VendorCodecGetCodecId: the two bytes after the vendor id.
A2DP_VendorCodecGetCodecId(p_codec_info) ==
  At(p_codec_info, 7) + 256 * At(p_codec_info, 8)

\* The length byte a structurally valid information element of the buffer's
\* codec carries (SBC, AAC, LDAC, LHDC V2 and V3, LHDC V5, Opus); 0 when the
\* vendor codec is not a known one.
CodecInfoLen(p_codec_info) ==
  LET vendor_id == A2DP_VendorCodecGetVendorId(p_codec_info)
      codec_id == A2DP_VendorCodecGetCodecId(p_codec_info)
  IN CASE A2DP_GetCodecType(p_codec_info) = A2DP_MEDIA_CT_SBC -> 6
       [] A2DP_GetCodecType(p_codec_info) = A2DP_MEDIA_CT_AAC -> 8
       [] OTHER ->
            IF vendor_id = A2DP_LDAC_VENDOR_ID /\ codec_id = A2DP_LDAC_CODEC_ID
            THEN 10
            ELSE IF vendor_id = A2DP_LHDC_VENDOR_ID
                    /\ codec_id \in {A2DP_LHDCV2_CODEC_ID, A2DP_LHDCV3_CODEC_ID}
            THEN 11
            ELSE IF vendor_id = A2DP_LHDC_VENDOR_ID
                    /\ codec_id = A2DP_LHDCV5_CODEC_ID
            THEN 13
            ELSE IF vendor_id = 224 /\ codec_id = 1
            THEN 9
            ELSE 0

\* The codecs' own validators: the buffer is a structurally valid
\* information element of the codec (its length byte and its media type).
StructurallyValid(p_codec_info) ==
  /\ Len(p_codec_info) >= 3
  /\ CodecInfoLen(p_codec_info) # 0
  /\ At(p_codec_info, 0) = CodecInfoLen(p_codec_info)
  /\ Len(p_codec_info) = CodecInfoLen(p_codec_info) + 1
  /\ At(p_codec_info, 1) = 0

A2DP_IsSourceCodecValidSbc(p_codec_info) == StructurallyValid(p_codec_info)
A2DP_IsSourceCodecValidAac(p_codec_info) == StructurallyValid(p_codec_info)
A2DP_IsVendorSourceCodecValid(p_codec_info) == StructurallyValid(p_codec_info)

A2DP_IsSourceCodecValid(p_codec_info) ==
  LET codec_type == A2DP_GetCodecType(p_codec_info)
  IN CASE codec_type = A2DP_MEDIA_CT_SBC ->
            A2DP_IsSourceCodecValidSbc(p_codec_info)
       [] codec_type = A2DP_MEDIA_CT_AAC ->
            A2DP_IsSourceCodecValidAac(p_codec_info)
       [] codec_type = A2DP_MEDIA_CT_NON_A2DP ->
            A2DP_IsVendorSourceCodecValid(p_codec_info)
       [] OTHER -> FALSE

\* The switch of the validity predicates: the codec's own validator for
\* SBC, AAC and the vendor family, false for any other type.
ValidityDispatch(p_codec_info) ==
  LET codec_type == A2DP_GetCodecType(p_codec_info)
  IN CASE codec_type = A2DP_MEDIA_CT_SBC -> StructurallyValid(p_codec_info)
       [] codec_type = A2DP_MEDIA_CT_AAC -> StructurallyValid(p_codec_info)
       [] codec_type = A2DP_MEDIA_CT_NON_A2DP -> StructurallyValid(p_codec_info)
       [] OTHER -> FALSE

A2DP_IsSinkCodecValid(p_codec_info) == ValidityDispatch(p_codec_info)
A2DP_IsPeerSourceCodecValid(p_codec_info) == ValidityDispatch(p_codec_info)
A2DP_IsPeerSinkCodecValid(p_codec_info) == ValidityDispatch(p_codec_info)
A2DP_IsSinkCodecSupported(p_codec_info) == ValidityDispatch(p_codec_info)
A2DP_IsPeerSourceCodecSupported(p_codec_info) == ValidityDispatch(p_codec_info)

\* The codecs' own type equality: the vendor family compares the ids.
CodecTypeEqualsFamily(p_codec_info_a, p_codec_info_b) ==
  A2DP_GetCodecType(p_codec_info_a) = A2DP_MEDIA_CT_NON_A2DP
    => /\ A2DP_VendorCodecGetVendorId(p_codec_info_a)
            = A2DP_VendorCodecGetVendorId(p_codec_info_b)
       /\ A2DP_VendorCodecGetCodecId(p_codec_info_a)
            = A2DP_VendorCodecGetCodecId(p_codec_info_b)

A2DP_CodecTypeEquals_SameTag(p_codec_info_a, p_codec_info_b) ==
  A2DP_GetCodecType(p_codec_info_a) = A2DP_GetCodecType(p_codec_info_b)

A2DP_CodecTypeEquals(p_codec_info_a, p_codec_info_b) ==
  LET codec_type_a == A2DP_GetCodecType(p_codec_info_a)
      codec_type_b == A2DP_GetCodecType(p_codec_info_b)
  IN IF codec_type_a # codec_type_b THEN FALSE
     ELSE CASE codec_type_a = A2DP_MEDIA_CT_SBC ->
                 CodecTypeEqualsFamily(p_codec_info_a, p_codec_info_b)
            [] codec_type_a = A2DP_MEDIA_CT_AAC ->
                 CodecTypeEqualsFamily(p_codec_info_a, p_codec_info_b)
            [] codec_type_a = A2DP_MEDIA_CT_NON_A2DP ->
                 CodecTypeEqualsFamily(p_codec_info_a, p_codec_info_b)
            [] OTHER -> FALSE

\* What the codec's own accessors answer for a buffer of SBC, AAC or the
\* vendor family; an interface is named by the codec type it serves, and
\* the vendor family has none for a vendor codec it does not know.
CodecSpecific(content_protection_enabled, p_codec_info) ==
  LET codec_type == A2DP_GetCodecType(p_codec_info)
      known == codec_type # A2DP_MEDIA_CT_NON_A2DP \/ CodecInfoLen(p_codec_info) # 0
  IN [ track_sample_rate |-> IF known THEN 44100 ELSE -1,
       track_bits_per_sample |-> IF known THEN 16 ELSE -1,
       track_channel_count |-> IF known THEN 2 ELSE -1,
       sink_track_channel_type |-> IF known THEN 3 ELSE -1,
       bit_rate |-> IF known THEN 328000 ELSE -1,
       encoder_interface |-> IF known THEN codec_type ELSE nullptr,
       decoder_interface |-> IF known THEN codec_type ELSE nullptr,
       effective_frame_size |-> 660,
       codec_name |-> CASE codec_type = A2DP_MEDIA_CT_SBC -> "SBC"
                        [] codec_type = A2DP_MEDIA_CT_AAC -> "AAC"
                        [] OTHER -> IF known THEN "VENDOR"
                                    ELSE "UNKNOWN VENDOR CODEC",
       uses_rtp_header |-> content_protection_enabled \/ known ]

IsDispatched(p_codec_info) ==
  A2DP_GetCodecType(p_codec_info)
    \in {A2DP_MEDIA_CT_SBC, A2DP_MEDIA_CT_AAC, A2DP_MEDIA_CT_NON_A2DP}

\* A2dpCodecConfig::getTrackBitRate of a descriptor holding ota_codec_config.
getTrackBitRate(ota_codec_config) ==
  IF IsDispatched(ota_codec_config)
  THEN CodecSpecific(FALSE, ota_codec_config).bit_rate ELSE -1

A2DP_UsesRtpHeader(content_protection_enabled, p_codec_info) ==
  IF A2DP_GetCodecType(p_codec_info) # A2DP_MEDIA_CT_NON_A2DP THEN TRUE
  ELSE CodecSpecific(content_protection_enabled, p_codec_info).uses_rtp_header

A2DP_CodecName(p_codec_info) ==
  IF IsDispatched(p_codec_info)
  THEN CodecSpecific(FALSE, p_codec_info).codec_name ELSE "UNKNOWN CODEC"

A2DP_GetTrackSampleRate(p_codec_info) ==
  IF IsDispatched(p_codec_info)
  THEN CodecSpecific(FALSE, p_codec_info).track_sample_rate ELSE -1

A2DP_GetTrackBitsPerSample(p_codec_info) ==
  IF IsDispatched(p_codec_info)
  THEN CodecSpecific(FALSE, p_codec_info).track_bits_per_sample ELSE -1

A2DP_GetTrackChannelCount(p_codec_info) ==
  IF IsDispatched(p_codec_info)
  THEN CodecSpecific(FALSE, p_codec_info).track_channel_count ELSE -1

A2DP_GetSinkTrackChannelType(p_codec_info) ==
  IF IsDispatched(p_codec_info)
  THEN CodecSpecific(FALSE, p_codec_info).sink_track_channel_type ELSE -1

A2DP_GetEncoderInterface(p_codec_info) ==
  IF IsDispatched(p_codec_info)
  THEN CodecSpecific(FALSE, p_codec_info).encoder_interface ELSE nullptr

A2DP_GetDecoderInterface(p_codec_info) ==
  IF IsDispatched(p_codec_info)
  THEN CodecSpecific(FALSE, p_codec_info).decoder_interface ELSE nullptr

\* The interface pointer starts as nullptr and stays so in the default case.
A2DP_GetEecoderEffectiveFrameSize_MinusOne(p_codec_info) ==
  LET a2dp_encoder_interface == A2DP_GetEncoderInterface(p_codec_info)
  IN IF a2dp_encoder_interface = nullptr THEN -1
     ELSE CodecSpecific(FALSE, p_codec_info).effective_frame_size

A2DP_GetEecoderEffectiveFrameSize(p_codec_info) ==
  LET a2dp_encoder_interface == A2DP_GetEncoderInterface(p_codec_info)
  IN IF a2dp_encoder_interface = nullptr THEN 0
     ELSE CodecSpecific(FALSE, p_codec_info).effective_frame_size

\* No dispatch function has been applied yet.
NoDispatch ==
  [ op |-> "none", content_protection_enabled |-> FALSE,
    IsSourceCodecValid |-> FALSE, IsSinkCodecValid |-> FALSE,
    IsPeerSourceCodecValid |-> FALSE, IsPeerSinkCodecValid |-> FALSE,
    IsSinkCodecSupported |-> FALSE, IsPeerSourceCodecSupported |-> FALSE,
    CodecTypeEquals |-> FALSE, CodecEquals |-> FALSE,
    GetTrackSampleRate |-> 0, GetTrackBitsPerSample |-> 0,
    GetTrackChannelCount |-> 0, GetSinkTrackChannelType |-> 0,
    getTrackBitRate |-> 0, GetEncoderInterface |-> nullptr,
    GetDecoderInterface |-> nullptr, CodecName |-> "",
    SourceCodecIndex |-> 0, SinkCodecIndex |-> 0,
    GetEecoderEffectiveFrameSize |-> 0, UsesRtpHeader |-> FALSE ]

\* The two bytes a 16-bit tier is stored in: low at offset lo, high at hi.
Tier16(lo, hi, tier) == (lo :> (tier % 256)) @@ (hi :> ((tier \div 256) % 256))

\* memset(p_a2dp_offload->codec_info, 0, sizeof(...)).
memset_codec_info_Skip(codec_info) == codec_info
memset_codec_info(codec_info) == [ k \in DOMAIN codec_info |-> 0 ]

\* The bytes of codec_info after the assignments `writes`.
Store(codec_info, writes) ==
  [ k \in DOMAIN codec_info |->
      IF k \in DOMAIN writes THEN writes[k] ELSE codec_info[k] ]

\* case A2DP_MEDIA_CT_SBC.
OffloadSbc_InOrder(codec_config) ==
  (0 :> At(codec_config, 3)) @@ (1 :> At(codec_config, 4))
    @@ (2 :> At(codec_config, 5)) @@ (3 :> At(codec_config, 6))

OffloadSbc(codec_config) ==
  (0 :> At(codec_config, 4)) @@ (1 :> At(codec_config, 5))
    @@ (2 :> At(codec_config, 6)) @@ (3 :> At(codec_config, 3))

\* case A2DP_MEDIA_CT_AAC.
OffloadAac(codec_config) ==
  (0 :> At(codec_config, 3)) @@ (1 :> At(codec_config, 6))

\* case A2DP_MEDIA_CT_NON_A2DP: the vendor id and the codec id.
OffloadVendorIds(vendor_id, codec_id) ==
  (0 :> (vendor_id % 256)) @@ (1 :> ((vendor_id \div 256) % 256))
    @@ (2 :> ((vendor_id \div 65536) % 256))
    @@ (3 :> ((vendor_id \div 16777216) % 256))
    @@ (4 :> (codec_id % 256)) @@ (5 :> ((codec_id \div 256) % 256))

\* LDAC: the quality tier and the channel mode.
OffloadLdac(codec_config, codec_specific_1) ==
  LET quality ==
        IF codec_specific_1 = 0 THEN A2DP_LDAC_QUALITY_ABR_OFFLOAD
        ELSE CASE codec_specific_1 % 10 = 0 -> A2DP_LDAC_QUALITY_HIGH
               [] codec_specific_1 % 10 = 1 -> A2DP_LDAC_QUALITY_MID
               [] codec_specific_1 % 10 = 2 -> A2DP_LDAC_QUALITY_LOW
               [] OTHER -> A2DP_LDAC_QUALITY_ABR_OFFLOAD
  IN (6 :> quality) @@ (7 :> At(codec_config, 10))

\* The offload tier of a quality tier with the HIGH1 tier in every revision.
OffloadQuality_High1Everywhere(quality, has_high1) ==
  CASE quality = A2DP_LHDC_QUALITY_LOW0 -> A2DP_OFFLOAD_LHDC_QUALITY_LOW0
    [] quality = A2DP_LHDC_QUALITY_LOW1 -> A2DP_OFFLOAD_LHDC_QUALITY_LOW1
    [] quality = A2DP_LHDC_QUALITY_LOW2 -> A2DP_OFFLOAD_LHDC_QUALITY_LOW2
    [] quality = A2DP_LHDC_QUALITY_LOW3 -> A2DP_OFFLOAD_LHDC_QUALITY_LOW3
    [] quality = A2DP_LHDC_QUALITY_LOW4 -> A2DP_OFFLOAD_LHDC_QUALITY_LOW4
    [] quality = A2DP_LHDC_QUALITY_LOW -> A2DP_OFFLOAD_LHDC_QUALITY_LOW
    [] quality = A2DP_LHDC_QUALITY_MID -> A2DP_OFFLOAD_LHDC_QUALITY_MID
    [] quality = A2DP_LHDC_QUALITY_HIGH -> A2DP_OFFLOAD_LHDC_QUALITY_HIGH
    [] quality = A2DP_LHDC_QUALITY_HIGH1 -> A2DP_OFFLOAD_LHDC_QUALITY_HIGH1
    [] quality = A2DP_LHDC_QUALITY_ABR -> A2DP_OFFLOAD_LHDC_QUALITY_ABR
    [] OTHER -> A2DP_OFFLOAD_LHDC_QUALITY_ABR

\* The offload tier of a quality tier; V2 and V3 have no HIGH1 tier.
OffloadQuality(quality, has_high1) ==
  CASE quality = A2DP_LHDC_QUALITY_LOW0 -> A2DP_OFFLOAD_LHDC_QUALITY_LOW0
    [] quality = A2DP_LHDC_QUALITY_LOW1 -> A2DP_OFFLOAD_LHDC_QUALITY_LOW1
    [] quality = A2DP_LHDC_QUALITY_LOW2 -> A2DP_OFFLOAD_LHDC_QUALITY_LOW2
    [] quality = A2DP_LHDC_QUALITY_LOW3 -> A2DP_OFFLOAD_LHDC_QUALITY_LOW3
    [] quality = A2DP_LHDC_QUALITY_LOW4 -> A2DP_OFFLOAD_LHDC_QUALITY_LOW4
    [] quality = A2DP_LHDC_QUALITY_LOW -> A2DP_OFFLOAD_LHDC_QUALITY_LOW
    [] quality = A2DP_LHDC_QUALITY_MID -> A2DP_OFFLOAD_LHDC_QUALITY_MID
    [] quality = A2DP_LHDC_QUALITY_HIGH -> A2DP_OFFLOAD_LHDC_QUALITY_HIGH
    [] quality = A2DP_LHDC_QUALITY_HIGH1 ->
         IF has_high1 THEN A2DP_OFFLOAD_LHDC_QUALITY_HIGH1
         ELSE A2DP_OFFLOAD_LHDC_QUALITY_HIGH
    [] quality = A2DP_LHDC_QUALITY_ABR -> A2DP_OFFLOAD_LHDC_QUALITY_ABR
    [] OTHER -> A2DP_OFFLOAD_LHDC_QUALITY_ABR

\* The split-channel field of LHDC V2 and V3: NONE, TWS, or a failure.
OffloadSplit_Lenient(codec_config) ==
  LET split == BitAnd(At(codec_config, 11), A2DP_LHDC_CH_SPLIT_MSK)
  IN IF split = A2DP_LHDC_CH_SPLIT_TWS
     THEN [ ok |-> TRUE,
            writes |-> (A2DP_OFFLOAD_LHDC_CFG_SPEC2 :>
                          A2DP_OFFLOAD_LHDC_SPECIFIC_FEATURE_SPLIT) ]
     ELSE [ ok |-> TRUE, writes |-> (A2DP_OFFLOAD_LHDC_CFG_SPEC2 :> 0) ]

OffloadSplit(codec_config) ==
  LET split == BitAnd(At(codec_config, 11), A2DP_LHDC_CH_SPLIT_MSK)
  IN IF split = A2DP_LHDC_CH_SPLIT_NONE
     THEN [ ok |-> TRUE, writes |-> (A2DP_OFFLOAD_LHDC_CFG_SPEC2 :> 0) ]
     ELSE IF split = A2DP_LHDC_CH_SPLIT_TWS
     THEN [ ok |-> TRUE,
            writes |-> (A2DP_OFFLOAD_LHDC_CFG_SPEC2 :>
                          A2DP_OFFLOAD_LHDC_SPECIFIC_FEATURE_SPLIT) ]
     ELSE [ ok |-> FALSE, writes |-> EmptyMap ]

\* The maximum bit rate tier of LHDC V2 and V3.
OffloadMaxBitRate(codec_config) ==
  LET max == BitAnd(At(codec_config, 10), A2DP_LHDC_MAX_BIT_RATE_MASK)
  IN Tier16(A2DP_OFFLOAD_LHDC_CFG_MAXBITRATE_L,
            A2DP_OFFLOAD_LHDC_CFG_MAXBITRATE_H,
            IF max = A2DP_LHDC_MAX_BIT_RATE_400K
            THEN A2DP_OFFLOAD_LHDC_QUALITY_LOW
            ELSE IF max = A2DP_LHDC_MAX_BIT_RATE_500K
            THEN A2DP_OFFLOAD_LHDC_QUALITY_MID
            ELSE A2DP_OFFLOAD_LHDC_QUALITY_HIGH)

\* The data interval of LHDC V2 and V3.
OffloadInterval(low_latency) ==
  A2DP_OFFLOAD_LHDC_CFG_INTERVAL :>
    (IF low_latency THEN A2DP_OFFLOAD_LHDC_DATA_INTERVAL_10MS
     ELSE A2DP_OFFLOAD_LHDC_DATA_INTERVAL_20MS)

\* The feature flags or-ed into the SPEC1 byte.
OffloadSpec1(ar, jas, meta) ==
  A2DP_OFFLOAD_LHDC_CFG_SPEC1 :>
    BitOr(IF ar THEN A2DP_OFFLOAD_LHDC_SPECIFIC_FEATURE_AR ELSE 0,
          BitOr(IF jas THEN A2DP_OFFLOAD_LHDC_SPECIFIC_FEATURE_JAS ELSE 0,
                IF meta THEN A2DP_OFFLOAD_LHDC_SPECIFIC_FEATURE_META ELSE 0))

\* LHDC V3 with the minimum bit rate left unwritten, as in LHDC V2.
OffloadLhdcV3_NoMinBitRate(codec_config, codec_specific_1) ==
  LET version == BitAnd(At(codec_config, 10), A2DP_LHDC_VERSION_MASK)
      isLLAC == BitAnd(At(codec_config, 10), A2DP_LHDC_FEATURE_LLAC) # 0
      isLHDCV4 == BitAnd(At(codec_config, 11), A2DP_LHDC_FEATURE_LHDCV4) # 0
      ver == IF isLLAC /\ ~isLHDCV4 THEN A2DP_OFFLOAD_LHDCV3_LLAC
             ELSE IF ~isLLAC /\ isLHDCV4 THEN A2DP_OFFLOAD_LHDCV3_V4_ONLY
             ELSE A2DP_OFFLOAD_LHDCV3_V3_ONLY
      split == OffloadSplit(codec_config)
      fields ==
        (A2DP_OFFLOAD_LHDC_CFG_VER :> ((2 ^ (ver - 1)) % 256))
          @@ Tier16(A2DP_OFFLOAD_LHDC_CFG_BITRATE_L,
                    A2DP_OFFLOAD_LHDC_CFG_BITRATE_H,
                    OffloadQuality(BitAnd(codec_specific_1, 15), FALSE))
          @@ OffloadMaxBitRate(codec_config)
          @@ OffloadInterval(BitAnd(At(codec_config, 10), A2DP_LHDC_LL_MASK) # 0)
          @@ OffloadSpec1(
               BitAnd(At(codec_config, 9), A2DP_LHDC_FEATURE_AR) # 0,
               BitAnd(At(codec_config, 9), A2DP_LHDC_FEATURE_JAS) # 0,
               BitAnd(At(codec_config, 11), A2DP_LHDC_FEATURE_META) # 0)
  IN IF version # A2DP_LHDC_VER3 /\ version # A2DP_LHDC_VER6
     THEN [ ok |-> FALSE, writes |-> EmptyMap ]
     ELSE [ ok |-> split.ok, writes |-> split.writes @@ fields ]

\* LHDC V3.  A failure keeps the bytes written before it.
OffloadLhdcV3(codec_config, codec_specific_1) ==
  LET version == BitAnd(At(codec_config, 10), A2DP_LHDC_VERSION_MASK)
      isLLAC == BitAnd(At(codec_config, 10), A2DP_LHDC_FEATURE_LLAC) # 0
      isLHDCV4 == BitAnd(At(codec_config, 11), A2DP_LHDC_FEATURE_LHDCV4) # 0
      ver == IF isLLAC /\ ~isLHDCV4 THEN A2DP_OFFLOAD_LHDCV3_LLAC
             ELSE IF ~isLLAC /\ isLHDCV4 THEN A2DP_OFFLOAD_LHDCV3_V4_ONLY
             ELSE A2DP_OFFLOAD_LHDCV3_V3_ONLY
      min == IF BitAnd(At(codec_config, 11), A2DP_LHDC_FEATURE_MIN_BR)
                  = A2DP_LHDC_FEATURE_MIN_BR
             THEN A2DP_OFFLOAD_LHDC_QUALITY_LOW4
             ELSE A2DP_OFFLOAD_LHDC_QUALITY_LOW1
      split == OffloadSplit(codec_config)
      fields ==
        (A2DP_OFFLOAD_LHDC_CFG_VER :> ((2 ^ (ver - 1)) % 256))
          @@ Tier16(A2DP_OFFLOAD_LHDC_CFG_BITRATE_L,
                    A2DP_OFFLOAD_LHDC_CFG_BITRATE_H,
                    OffloadQuality(BitAnd(codec_specific_1, 15), FALSE))
          @@ OffloadMaxBitRate(codec_config)
          @@ Tier16(A2DP_OFFLOAD_LHDC_CFG_MINBITRATE_L,
                    A2DP_OFFLOAD_LHDC_CFG_MINBITRATE_H, min)
          @@ OffloadInterval(BitAnd(At(codec_config, 10), A2DP_LHDC_LL_MASK) # 0)
          @@ OffloadSpec1(
               BitAnd(At(codec_config, 9), A2DP_LHDC_FEATURE_AR) # 0,
               BitAnd(At(codec_config, 9), A2DP_LHDC_FEATURE_JAS) # 0,
               BitAnd(At(codec_config, 11), A2DP_LHDC_FEATURE_META) # 0)
  IN IF version # A2DP_LHDC_VER3 /\ version # A2DP_LHDC_VER6
     THEN [ ok |-> FALSE, writes |-> EmptyMap ]
     ELSE [ ok |-> split.ok, writes |-> split.writes @@ fields ]

\* LHDC V2.
OffloadLhdcV2(codec_config, codec_specific_1) ==
  LET version == BitAnd(At(codec_config, 10), A2DP_LHDC_VERSION_MASK)
      split == OffloadSplit(codec_config)
      fields ==
        (A2DP_OFFLOAD_LHDC_CFG_VER :>
           ((2 ^ (A2DP_OFFLOAD_LHDCV2_VER_1 - 1)) % 256))
          @@ Tier16(A2DP_OFFLOAD_LHDC_CFG_BITRATE_L,
                    A2DP_OFFLOAD_LHDC_CFG_BITRATE_H,
                    OffloadQuality(BitAnd(codec_specific_1, 15), FALSE))
          @@ OffloadMaxBitRate(codec_config)
          @@ OffloadInterval(BitAnd(At(codec_config, 10), A2DP_LHDC_LL_MASK) # 0)
  IN IF version > A2DP_LHDC_VER2
     THEN [ ok |-> FALSE, writes |-> EmptyMap ]
     ELSE [ ok |-> split.ok, writes |-> split.writes @@ fields ]

\* LHDC V5: the frame duration is checked after the bit rates are written
\* and before the interval and the feature bytes.
OffloadLhdcV5(codec_config, codec_specific_1) ==
  LET version == BitAnd(At(codec_config, 11), A2DP_LHDCV5_VERSION_MASK)
      max == BitAnd(At(codec_config, 10), A2DP_LHDCV5_MAX_BIT_RATE_MASK)
      min == BitAnd(At(codec_config, 10), A2DP_LHDCV5_MIN_BIT_RATE_MASK)
      before ==
        (A2DP_OFFLOAD_LHDC_CFG_VER :>
           ((2 ^ (A2DP_OFFLOAD_LHDCV5_VER_1 - 1)) % 256))
          @@ Tier16(A2DP_OFFLOAD_LHDC_CFG_BITRATE_L,
                    A2DP_OFFLOAD_LHDC_CFG_BITRATE_H,
                    OffloadQuality(BitAnd(codec_specific_1, 15), TRUE))
          @@ Tier16(A2DP_OFFLOAD_LHDC_CFG_MAXBITRATE_L,
                    A2DP_OFFLOAD_LHDC_CFG_MAXBITRATE_H,
                    IF max = A2DP_LHDCV5_MAX_BIT_RATE_400K
                    THEN A2DP_OFFLOAD_LHDC_QUALITY_LOW
                    ELSE IF max = A2DP_LHDCV5_MAX_BIT_RATE_500K
                    THEN A2DP_OFFLOAD_LHDC_QUALITY_MID
                    ELSE IF max = A2DP_LHDCV5_MAX_BIT_RATE_900K
                    THEN A2DP_OFFLOAD_LHDC_QUALITY_HIGH
                    ELSE A2DP_OFFLOAD_LHDC_QUALITY_HIGH1)
          @@ Tier16(A2DP_OFFLOAD_LHDC_CFG_MINBITRATE_L,
                    A2DP_OFFLOAD_LHDC_CFG_MINBITRATE_H,
                    IF min = A2DP_LHDCV5_MIN_BIT_RATE_64K
                    THEN A2DP_OFFLOAD_LHDC_QUALITY_LOW0
                    ELSE IF min = A2DP_LHDCV5_MIN_BIT_RATE_128K
                    THEN A2DP_OFFLOAD_LHDC_QUALITY_LOW1
                    ELSE IF min = A2DP_LHDCV5_MIN_BIT_RATE_256K
                    THEN A2DP_OFFLOAD_LHDC_QUALITY_LOW3
                    ELSE A2DP_OFFLOAD_LHDC_QUALITY_LOW)
      after ==
        (A2DP_OFFLOAD_LHDC_CFG_FRAMEDUR :>
           A2DP_OFFLOAD_LHDC_FRAME_DURATION_5000US)
          @@ OffloadInterval(
               BitAnd(At(codec_config, 12), A2DP_LHDCV5_FEATURE_LL) # 0)
          @@ OffloadSpec1(
               BitAnd(At(codec_config, 12), A2DP_LHDCV5_FEATURE_AR) # 0,
               BitAnd(At(codec_config, 12), A2DP_LHDCV5_FEATURE_JAS) # 0,
               BitAnd(At(codec_config, 12), A2DP_LHDCV5_FEATURE_META) # 0)
          @@ (IF BitAnd(At(codec_config, 13), A2DP_LHDCV5_AR_ON) # 0
              THEN (A2DP_OFFLOAD_LHDC_CFG_SPEC2 :>
                      A2DP_OFFLOAD_LHDC_SPECIFIC_ACTION_AR_ON)
              ELSE EmptyMap)
  IN IF version # A2DP_LHDCV5_VER_1
     THEN [ ok |-> FALSE, writes |-> EmptyMap ]
     ELSE IF BitAnd(At(codec_config, 11), A2DP_LHDCV5_FRAME_LEN_MASK) # 0
     THEN [ ok |-> TRUE, writes |-> after @@ before ]
     ELSE [ ok |-> FALSE, writes |-> before ]

\* case A2DP_MEDIA_CT_NON_A2DP: ids first, then the vendor codec's fields.
OffloadVendor(codec_config, codec_specific_1) ==
  LET vendor_id == A2DP_VendorCodecGetVendorId(codec_config)
      codec_id == A2DP_VendorCodecGetCodecId(codec_config)
      ids == OffloadVendorIds(vendor_id, codec_id)
      r == IF vendor_id = A2DP_LDAC_VENDOR_ID /\ codec_id = A2DP_LDAC_CODEC_ID
           THEN [ ok |-> TRUE,
                  writes |-> OffloadLdac(codec_config, codec_specific_1) ]
           ELSE IF vendor_id = A2DP_LHDC_VENDOR_ID
                   /\ codec_id = A2DP_LHDCV3_CODEC_ID
           THEN OffloadLhdcV3(codec_config, codec_specific_1)
           ELSE IF vendor_id = A2DP_LHDC_VENDOR_ID
                   /\ codec_id = A2DP_LHDCV2_CODEC_ID
           THEN OffloadLhdcV2(codec_config, codec_specific_1)
           ELSE IF vendor_id = A2DP_LHDC_VENDOR_ID
                   /\ codec_id = A2DP_LHDCV5_CODEC_ID
           THEN OffloadLhdcV5(codec_config, codec_specific_1)
           ELSE [ ok |-> TRUE, writes |-> EmptyMap ]
  IN [ ok |-> r.ok, writes |-> r.writes @@ ids ]

\* A2dpCodecConfig::getCodecSpecificConfig on a descriptor whose wire
\* configuration is ota_codec_config and whose negotiated configuration
\* carries codec_specific_1: the offload bytes and the returned value.
getCodecSpecificConfigWith(ota_codec_config, codec_specific_1, codec_info) ==
  LET zeroed == memset_codec_info(codec_info)
      codec_type == A2DP_GetCodecType(ota_codec_config)
      r == CASE codec_type = A2DP_MEDIA_CT_SBC ->
                  [ ok |-> TRUE, writes |-> OffloadSbc(ota_codec_config) ]
             [] codec_type = A2DP_MEDIA_CT_AAC ->
                  [ ok |-> TRUE, writes |-> OffloadAac(ota_codec_config) ]
             [] codec_type = A2DP_MEDIA_CT_NON_A2DP ->
                  OffloadVendor(ota_codec_config, codec_specific_1)
             [] OTHER -> [ ok |-> TRUE, writes |-> EmptyMap ]
  IN IF ~A2DP_IsSourceCodecValid(ota_codec_config)
     THEN [ codec_info |-> zeroed, ret |-> FALSE ]
     ELSE [ codec_info |-> Store(zeroed, r.writes), ret |-> r.ok ]

\* A2dpCodecs::A2dpCodecs(codec_priorities).
Init ==
  /\ codec_priorities_ \in PriorityTables
  /\ initialized = FALSE
  /\ indexed_codecs_ = {}
  /\ disabled_codecs_ = {}
  /\ ordered_source_codecs_ = << >>
  /\ ordered_sink_codecs_ = << >>
  /\ current_codec_config_ = nullptr
  /\ codec_priority_ = EmptyMap
  /\ default_codec_priority_ = EmptyMap
  /\ codec_config_ = EmptyMap
  /\ codec_user_config_ = EmptyMap
  /\ codec_audio_config_ = EmptyMap
  /\ ota_codec_config_ = EmptyMap
  /\ call = NoCall
  /\ nops = 0
  /\ codec_local_capability_ = EmptyMap
  /\ codec_selectable_capability_ = EmptyMap
  /\ codec_mutex_ = [ o \in Objects |-> Unlocked ]
  /\ thread = [ t \in Threads |-> NoThreadCall ]
  /\ p_a2dp_offload = ZeroOffload
  /\ codec_info_buffers = << ZeroCodecInfo, ZeroCodecInfo >>
  /\ dispatch = NoDispatch

\* The variant of the priority below that does not look at the OPUS flag.
InitCodecPriority_IgnoreFlag(codec_index, opus_enabled) ==
  IF codec_index \in DOMAIN codec_priorities_
  THEN codec_priorities_[codec_index]
  ELSE BTAV_A2DP_CODEC_PRIORITY_DEFAULT

\* The priority init() constructs descriptor codec_index with.
InitCodecPriority(codec_index, opus_enabled) ==
  IF codec_index = BTAV_A2DP_CODEC_INDEX_SOURCE_OPUS /\ ~opus_enabled
  THEN BTAV_A2DP_CODEC_PRIORITY_DISABLED
  ELSE IF codec_index \in DOMAIN codec_priorities_
       THEN codec_priorities_[codec_index]
       ELSE BTAV_A2DP_CODEC_PRIORITY_DEFAULT

\* The loop of init() from index i on: acc holds the two maps and two lists,
\* prio the effective priority of every created descriptor.
RECURSIVE init_loop(_, _, _)
init_loop(i, prio, acc) ==
  IF i >= BTAV_A2DP_CODEC_INDEX_MAX THEN acc
  ELSE IF i \notin DOMAIN prio THEN init_loop(i + 1, prio, acc)
  ELSE IF prio[i] = BTAV_A2DP_CODEC_PRIORITY_DISABLED
       THEN init_loop(i + 1, prio, [acc EXCEPT !.disabled = @ \cup {i}])
  ELSE IF i < BTAV_A2DP_CODEC_INDEX_SOURCE_MAX
       THEN init_loop(i + 1, prio,
                      [acc EXCEPT !.indexed = @ \cup {i},
                                  !.ordered_source = sort(Append(@, i), prio)])
       ELSE init_loop(i + 1, prio,
                      [acc EXCEPT !.indexed = @ \cup {i},
                                  !.ordered_sink = sort(Append(@, i), prio)])

\* A2dpCodecs::init().
init ==
  /\ ~initialized
  /\ \E opus_enabled \in BOOLEAN, created \in CreatableSets :
       LET given == [ i \in created |-> InitCodecPriority(i, opus_enabled) ]
           prio == [ i \in created |-> setCodecPriority(i, given[i], given[i]) ]
           acc == init_loop(BTAV_A2DP_CODEC_INDEX_MIN, prio,
                            [ indexed |-> {}, disabled |-> {},
                              ordered_source |-> << >>, ordered_sink |-> << >> ])
       IN /\ default_codec_priority_' = given
          /\ codec_priority_' = prio
          /\ codec_config_' =
               [ i \in created |-> init_btav_a2dp_codec_config(i, prio[i]) ]
          /\ codec_user_config_' =
               [ i \in created |->
                   init_btav_a2dp_codec_config(i, BTAV_A2DP_CODEC_PRIORITY_DEFAULT) ]
          /\ codec_audio_config_' =
               [ i \in created |->
                   init_btav_a2dp_codec_config(i, BTAV_A2DP_CODEC_PRIORITY_DEFAULT) ]
          /\ ota_codec_config_' = [ i \in created |-> ZeroCodecInfo ]
          /\ codec_local_capability_' =
               [ i \in created |-> init_btav_a2dp_codec_config(i, prio[i]) ]
          /\ codec_selectable_capability_' =
               [ i \in created |-> init_btav_a2dp_codec_config(i, prio[i]) ]
          /\ indexed_codecs_' = acc.indexed
          /\ disabled_codecs_' = acc.disabled
          /\ ordered_source_codecs_' = acc.ordered_source
          /\ ordered_sink_codecs_' = acc.ordered_sink
          /\ call' = [ NoCall EXCEPT
                         !.op = "init",
                         !.opus_enabled = opus_enabled,
                         !.ret = (acc.ordered_source # << >> /\ acc.ordered_sink # << >>) ]
  /\ initialized' = TRUE
  /\ UNCHANGED << codec_priorities_, current_codec_config_, nops, lockvars,
                  bufvars >>

\* findSourceCodecConfig / findSinkCodecConfig: the enabled descriptor of a
\* codec index, or nullptr.
findCodecConfig_AnyCreated(codec_index) ==
  IF codec_index = BTAV_A2DP_CODEC_INDEX_MAX THEN nullptr
  ELSE IF codec_index \notin indexed_codecs_ \cup disabled_codecs_ THEN nullptr
  ELSE codec_index

findCodecConfig(codec_index) ==
  IF codec_index = BTAV_A2DP_CODEC_INDEX_MAX THEN nullptr
  ELSE IF codec_index \notin indexed_codecs_ THEN nullptr
  ELSE codec_index

findSourceCodecConfig(p_codec_info) ==
  findCodecConfig(A2DP_SourceCodecIndex(p_codec_info))

findSinkCodecConfig(p_codec_info) ==
  findCodecConfig(A2DP_SinkCodecIndex(p_codec_info))

\* The descriptor variables with descriptor codec_index's snapshots set to d.
StoreDescriptor(codec_index, d) ==
  /\ codec_config_' = [codec_config_ EXCEPT ![codec_index] = d.codec_config]
  /\ codec_user_config_' =
       [codec_user_config_ EXCEPT ![codec_index] = d.codec_user_config]
  /\ codec_audio_config_' =
       [codec_audio_config_ EXCEPT ![codec_index] = d.codec_audio_config]
  /\ ota_codec_config_' =
       [ota_codec_config_ EXCEPT ![codec_index] = d.ota_codec_config]

\* The variant of the selection below that adopts the descriptor whenever the
\* negotiation succeeds.
SimpleConfigCurrent_AlwaysSelect(success, select_current_codec, a2dp_codec_config) ==
  IF success THEN a2dp_codec_config ELSE current_codec_config_

\* A selection that does not wait for the descriptor's answer.
SimpleConfigCurrent_OnFailure(success, select_current_codec, a2dp_codec_config) ==
  IF select_current_codec THEN a2dp_codec_config ELSE current_codec_config_

\* The current descriptor when setCodecConfig / setSinkCodecConfig return:
\* if (select_current_codec) current_codec_config_ = a2dp_codec_config, reached
\* only on success.
SimpleConfigCurrent(success, select_current_codec, a2dp_codec_config) ==
  IF success /\ select_current_codec
  THEN a2dp_codec_config ELSE current_codec_config_

\* The body shared by A2dpCodecs::setCodecConfig and setSinkCodecConfig once
\* the descriptor is looked up.
SimpleSetCodecConfig(op, a2dp_codec_config, p_peer_codec_info, is_capability, select_current_codec) ==
  IF a2dp_codec_config = nullptr
  THEN /\ call' = [NoCall EXCEPT !.op = op,
                                 !.select_current_codec = select_current_codec,
                                 !.peer_codec_type =
                                    A2DP_GetCodecType(p_peer_codec_info)]
       /\ UNCHANGED << regvars, descvars >>
  ELSE LET r == A2dpCodecConfig_setCodecConfig(
                  a2dp_codec_config, Descriptor(a2dp_codec_config),
                  p_peer_codec_info, is_capability)
       IN /\ StoreDescriptor(a2dp_codec_config, r.d)
          /\ current_codec_config_' =
               SimpleConfigCurrent(r.success, select_current_codec,
                                   a2dp_codec_config)
          /\ call' = [NoCall EXCEPT !.op = op, !.ret = r.success,
                                    !.a2dp_codec_config = a2dp_codec_config,
                                    !.select_current_codec = select_current_codec,
                                    !.peer_codec_type =
                                       A2DP_GetCodecType(p_peer_codec_info)]
          /\ UNCHANGED << codec_priorities_, initialized, indexed_codecs_,
                          disabled_codecs_, ordered_source_codecs_,
                          ordered_sink_codecs_, codec_priority_,
                          default_codec_priority_ >>

\* A2dpCodecs::setCodecConfig.
setCodecConfig ==
  /\ initialized /\ nops < MaxOps
  /\ nops' = nops + 1
  /\ UNCHANGED << capvars, lockvars, bufvars >>
  /\ \E p_peer_codec_info \in PeerCodecInfos, is_capability \in BOOLEAN,
        select_current_codec \in BOOLEAN :
       SimpleSetCodecConfig("setCodecConfig",
                            findSourceCodecConfig(p_peer_codec_info),
                            p_peer_codec_info, is_capability, select_current_codec)

\* A2dpCodecs::setSinkCodecConfig.
setSinkCodecConfig ==
  /\ initialized /\ nops < MaxOps
  /\ nops' = nops + 1
  /\ UNCHANGED << capvars, lockvars, bufvars >>
  /\ \E p_peer_codec_info \in PeerCodecInfos, is_capability \in BOOLEAN,
        select_current_codec \in BOOLEAN :
       SimpleSetCodecConfig("setSinkCodecConfig",
                            findSinkCodecConfig(p_peer_codec_info),
                            p_peer_codec_info, is_capability, select_current_codec)

\* A target resolution that falls back to the current descriptor when
\* codec_type names a codec that is not enabled.
UserConfigTarget_FallBack(codec_type) ==
  IF codec_type < BTAV_A2DP_CODEC_INDEX_MAX /\ codec_type \in indexed_codecs_
  THEN codec_type
  ELSE current_codec_config_

\* A2dpCodecs::setCodecUserConfig, the target of the call: the enabled
\* descriptor of codec_type, or the current descriptor when codec_type is no
\* codec index; nullptr is the `goto fail`.
UserConfigTarget(codec_type) ==
  IF codec_type < BTAV_A2DP_CODEC_INDEX_MAX
  THEN IF codec_type \notin indexed_codecs_ THEN nullptr ELSE codec_type
  ELSE current_codec_config_

\* A2dpCodecs::setCodecUserConfig, the do { } while (false) block after the
\* target's priority is set, one operator for each way out of it. Each gives
\* the current descriptor, the three flags (on entry those of the descriptor's
\* setCodecUserConfig), and `demote`: whether
\* last_codec_config->setDefaultCodecPriority() is called.

\* A first selection that keeps the descriptor's restart flags.
FirstSelection_KeepFlags(a2dp_codec_config, restart_input, restart_output, config_updated) ==
  [ current |-> a2dp_codec_config, demote |-> FALSE,
    restart_input |-> restart_input, restart_output |-> restart_output,
    config_updated |-> config_updated ]

\* There was no previous codec.
FirstSelection(a2dp_codec_config, restart_input, restart_output, config_updated) ==
  [ current |-> a2dp_codec_config, demote |-> FALSE,
    restart_input |-> TRUE, restart_output |-> TRUE,
    config_updated |-> config_updated ]

\* A priority update of the current codec that always forces restart_output.
CurrentPriorityUpdated_AlwaysRestart(last_codec_config, old_priority, new_priority, restart_input, restart_output, config_updated) ==
  [ current |-> last_codec_config, demote |-> FALSE,
    restart_input |-> restart_input, restart_output |-> TRUE,
    config_updated |-> TRUE ]

\* A priority update of the current codec that never forces restart_output.
CurrentPriorityUpdated_NoRestart(last_codec_config, old_priority, new_priority, restart_input, restart_output, config_updated) ==
  [ current |-> last_codec_config, demote |-> FALSE,
    restart_input |-> restart_input, restart_output |-> restart_output,
    config_updated |-> (IF old_priority = new_priority THEN config_updated
                        ELSE TRUE) ]

\* The priority of the current codec was updated.
CurrentPriorityUpdated(last_codec_config, old_priority, new_priority, restart_input, restart_output, config_updated) ==
  IF old_priority = new_priority
  THEN [ current |-> last_codec_config, demote |-> FALSE,
         restart_input |-> restart_input, restart_output |-> restart_output,
         config_updated |-> config_updated ]
  ELSE [ current |-> last_codec_config, demote |-> FALSE,
         restart_input |-> restart_input,
         restart_output |-> (IF new_priority < old_priority THEN TRUE
                             ELSE restart_output),
         config_updated |-> TRUE ]

\* A not-raised branch that keeps the descriptor's restart flags.
BackupNotRaised_KeepFlags(last_codec_config, old_priority, new_priority, restart_input, restart_output, config_updated) ==
  [ current |-> last_codec_config, demote |-> FALSE,
    restart_input |-> restart_input, restart_output |-> restart_output,
    config_updated |-> (IF restart_input \/ restart_output
                           \/ old_priority # new_priority
                        THEN TRUE ELSE config_updated) ]

\* Another codec's priority stayed or became lower.
BackupNotRaised(last_codec_config, old_priority, new_priority, restart_input, restart_output, config_updated) ==
  [ current |-> last_codec_config, demote |-> FALSE,
    restart_input |-> FALSE, restart_output |-> FALSE,
    config_updated |-> (IF restart_input \/ restart_output
                           \/ old_priority # new_priority
                        THEN TRUE ELSE config_updated) ]

\* A raised branch that switches only on a strictly higher priority.
BackupRaised_Strict(last_codec_config, a2dp_codec_config, new_priority, prio, restart_input, restart_output) ==
  IF new_priority > prio[last_codec_config]
  THEN [ current |-> a2dp_codec_config, demote |-> TRUE,
         restart_input |-> TRUE, restart_output |-> TRUE,
         config_updated |-> TRUE ]
  ELSE [ current |-> last_codec_config, demote |-> FALSE,
         restart_input |-> restart_input, restart_output |-> restart_output,
         config_updated |-> TRUE ]

\* Another codec's priority became higher; prio holds the priorities after
\* the target's is set.
BackupRaised(last_codec_config, a2dp_codec_config, new_priority, prio, restart_input, restart_output) ==
  IF new_priority >= prio[last_codec_config]
  THEN [ current |-> a2dp_codec_config, demote |-> TRUE,
         restart_input |-> TRUE, restart_output |-> TRUE,
         config_updated |-> TRUE ]
  ELSE [ current |-> last_codec_config, demote |-> FALSE,
         restart_input |-> restart_input, restart_output |-> restart_output,
         config_updated |-> TRUE ]

PriorityReconcile(last_codec_config, a2dp_codec_config, old_priority, new_priority, prio, restart_input, restart_output, config_updated) ==
  IF last_codec_config = nullptr
  THEN FirstSelection(a2dp_codec_config, restart_input, restart_output,
                      config_updated)
  ELSE IF a2dp_codec_config = last_codec_config
  THEN CurrentPriorityUpdated(last_codec_config, old_priority, new_priority,
                              restart_input, restart_output, config_updated)
  ELSE IF new_priority <= old_priority
  THEN BackupNotRaised(last_codec_config, old_priority, new_priority,
                       restart_input, restart_output, config_updated)
  ELSE BackupRaised(last_codec_config, a2dp_codec_config, new_priority, prio,
                    restart_input, restart_output)

\* A `fail:` label that leaves a resolved target as the current descriptor.
UserConfigFail_KeepTarget(last_codec_config, a2dp_codec_config) ==
  IF a2dp_codec_config # nullptr THEN a2dp_codec_config ELSE last_codec_config

\* A `fail:` label that clears the current descriptor.
UserConfigFail_Clear(last_codec_config, a2dp_codec_config) == nullptr

\* The `fail:` label of A2dpCodecs::setCodecUserConfig: the current descriptor
\* the failed call leaves.
UserConfigFail(last_codec_config, a2dp_codec_config) == last_codec_config

\* A setCodecAudioConfig that passes on an empty user configuration.
AudioConfigUserConfig_Empty(a2dp_codec_config) ==
  init_btav_a2dp_codec_config(a2dp_codec_config, BTAV_A2DP_CODEC_PRIORITY_DEFAULT)

\* The user configuration A2dpCodecs::setCodecAudioConfig passes on: the
\* descriptor's existing one.
AudioConfigUserConfig(a2dp_codec_config) == codec_user_config_[a2dp_codec_config]

\* A return that leaves config_updated as the reconciliation set it.
FinalConfigUpdated_Keep(restart_input, restart_output, config_updated) ==
  config_updated

\* The config_updated a registry call returns:
\* if (*p_restart_input || *p_restart_output) *p_config_updated = true.
FinalConfigUpdated(restart_input, restart_output, config_updated) ==
  IF restart_input \/ restart_output THEN TRUE ELSE config_updated

\* A2dpCodecs::setCodecUserConfig called with these arguments. `record` keeps
\* the arguments of a successful call in the call record, `repeated` marks
\* the call as the repetition of the previous one.
setCodecUserConfigBody(last_codec_config, codec_user_config, p_peer_sink_capabilities, record, repeated) ==
       LET a2dp_codec_config == UserConfigTarget(codec_user_config.codec_type)
           thecall == [NoCall EXCEPT !.op = "setCodecUserConfig",
                                     !.repeated = repeated,
                                     !.user_codec_priority =
                                        codec_user_config.codec_priority,
                                     !.codec_type = codec_user_config.codec_type,
                                     !.a2dp_codec_config = a2dp_codec_config,
                                     !.last_codec_config = last_codec_config]
       IN IF a2dp_codec_config = nullptr
          THEN /\ current_codec_config_' =
                    UserConfigFail(last_codec_config, a2dp_codec_config)
               /\ call' = thecall
               /\ UNCHANGED << codec_priorities_, initialized, indexed_codecs_,
                               disabled_codecs_, ordered_source_codecs_,
                               ordered_sink_codecs_, descvars >>
          ELSE
            LET codec_audio_config == codec_audio_config_[a2dp_codec_config]
                r == A2dpCodecConfig_setCodecUserConfig(
                       a2dp_codec_config, Descriptor(a2dp_codec_config),
                       codec_user_config, codec_audio_config,
                       p_peer_sink_capabilities, TRUE)
            IN IF ~r.success
               THEN /\ StoreDescriptor(a2dp_codec_config, r.d)
                    /\ current_codec_config_' =
                         UserConfigFail(last_codec_config, a2dp_codec_config)
                    /\ call' = [thecall EXCEPT
                                  !.restart_input = r.restart_input,
                                  !.restart_output = r.restart_output,
                                  !.config_updated = r.config_updated,
                                  !.d_restart_input = r.restart_input,
                                  !.d_restart_output = r.restart_output,
                                  !.d_config_updated = r.config_updated,
                                  !.saved_codec_config = r.saved_codec_config,
                                  !.saved_ota_codec_config = r.saved_ota_codec_config]
                    /\ UNCHANGED << codec_priorities_, initialized, indexed_codecs_,
                                    disabled_codecs_, ordered_source_codecs_,
                                    ordered_sink_codecs_, codec_priority_,
                                    default_codec_priority_ >>
               ELSE
                 LET old_priority == codec_priority_[a2dp_codec_config]
                     new_priority ==
                       setCodecPriority(a2dp_codec_config,
                                        default_codec_priority_[a2dp_codec_config],
                                        codec_user_config.codec_priority)
                     prio1 == [codec_priority_ EXCEPT ![a2dp_codec_config] = new_priority]
                     rec == PriorityReconcile(last_codec_config, a2dp_codec_config,
                                              old_priority, new_priority, prio1,
                                              r.restart_input, r.restart_output,
                                              r.config_updated)
                     prio2 == IF rec.demote
                              THEN [prio1 EXCEPT ![last_codec_config] =
                                      setDefaultCodecPriority(
                                        last_codec_config,
                                        default_codec_priority_[last_codec_config])]
                              ELSE prio1
                     touched == {a2dp_codec_config} \cup
                                  (IF rec.demote THEN {last_codec_config} ELSE {})
                     config1 == [codec_config_ EXCEPT
                                   ![a2dp_codec_config] = r.d.codec_config]
                 IN /\ codec_priority_' = prio2
                    /\ codec_config_' =
                         [ i \in DOMAIN config1 |->
                             IF i \in touched
                             THEN [config1[i] EXCEPT !.codec_priority = prio2[i]]
                             ELSE config1[i] ]
                    /\ codec_user_config_' =
                         [codec_user_config_ EXCEPT
                            ![a2dp_codec_config] = r.d.codec_user_config]
                    /\ codec_audio_config_' =
                         [codec_audio_config_ EXCEPT
                            ![a2dp_codec_config] = r.d.codec_audio_config]
                    /\ ota_codec_config_' =
                         [ota_codec_config_ EXCEPT
                            ![a2dp_codec_config] = r.d.ota_codec_config]
                    /\ current_codec_config_' = rec.current
                    /\ ordered_source_codecs_' = sort(ordered_source_codecs_, prio2)
                    /\ call' = [thecall EXCEPT
                                  !.ret = TRUE,
                                  !.codec_user_config =
                                     IF record THEN codec_user_config ELSE @,
                                  !.p_peer_codec_info =
                                     IF record THEN p_peer_sink_capabilities ELSE @,
                                  !.old_priority = old_priority,
                                  !.restart_input = rec.restart_input,
                                  !.restart_output = rec.restart_output,
                                  !.config_updated =
                                     FinalConfigUpdated(rec.restart_input,
                                                        rec.restart_output,
                                                        rec.config_updated),
                                  !.d_restart_input = r.restart_input,
                                  !.d_restart_output = r.restart_output,
                                  !.d_config_updated = r.config_updated,
                                  !.saved_codec_config = r.saved_codec_config,
                                  !.saved_ota_codec_config = r.saved_ota_codec_config]
                    /\ UNCHANGED << codec_priorities_, initialized, indexed_codecs_,
                                    disabled_codecs_, ordered_sink_codecs_,
                                    default_codec_priority_ >>

\* A2dpCodecs::setCodecUserConfig from its first statement on, in one step:
\* last_codec_config = current_codec_config_ and the rest.
setCodecUserConfigWith(codec_user_config, p_peer_sink_capabilities, record, repeated) ==
  setCodecUserConfigBody(current_codec_config_, codec_user_config,
                         p_peer_sink_capabilities, record, repeated)

\* A2dpCodecs::setCodecUserConfig.
setCodecUserConfig ==
  /\ initialized /\ nops < MaxOps
  /\ nops' = nops + 1
  /\ UNCHANGED << capvars, lockvars, bufvars >>
  /\ \E codec_user_config \in UserConfigs, p_peer_sink_capabilities \in PeerCodecInfos :
       setCodecUserConfigWith(codec_user_config, p_peer_sink_capabilities,
                              FALSE, FALSE)

\* A2dpCodecs::setCodecUserConfig, the arguments of a successful call kept.
setCodecUserConfigRecorded ==
  /\ initialized /\ nops < MaxOps
  /\ nops' = nops + 1
  /\ UNCHANGED << capvars, lockvars, bufvars >>
  /\ \E codec_user_config \in UserConfigs, p_peer_sink_capabilities \in PeerCodecInfos :
       setCodecUserConfigWith(codec_user_config, p_peer_sink_capabilities,
                              TRUE, FALSE)

\* A2dpCodecs::setCodecUserConfig called again with the arguments of the
\* successful call just made.
setCodecUserConfigRepeated ==
  /\ initialized /\ nops < MaxOps
  /\ call.op = "setCodecUserConfig" /\ call.ret
  /\ nops' = nops + 1
  /\ UNCHANGED << capvars, lockvars, bufvars >>
  /\ setCodecUserConfigWith(call.codec_user_config, call.p_peer_codec_info,
                            TRUE, TRUE)

\* A2dpCodecs::setCodecAudioConfig.
setCodecAudioConfig ==
  /\ initialized /\ nops < MaxOps
  /\ nops' = nops + 1
  /\ UNCHANGED << capvars, lockvars, bufvars >>
  /\ \E codec_audio_config \in AudioConfigs, p_peer_sink_capabilities \in PeerCodecInfos :
       LET a2dp_codec_config == current_codec_config_
           thecall == [NoCall EXCEPT !.op = "setCodecAudioConfig",
                                     !.a2dp_codec_config = a2dp_codec_config]
       IN IF a2dp_codec_config = nullptr
          THEN /\ call' = thecall
               /\ UNCHANGED << regvars, descvars >>
          ELSE
            LET codec_user_config == AudioConfigUserConfig(a2dp_codec_config)
                r == A2dpCodecConfig_setCodecUserConfig(
                       a2dp_codec_config, Descriptor(a2dp_codec_config),
                       codec_user_config, codec_audio_config,
                       p_peer_sink_capabilities, TRUE)
            IN /\ StoreDescriptor(a2dp_codec_config, r.d)
               /\ call' = [thecall EXCEPT
                             !.ret = r.success,
                             !.restart_output = r.restart_output,
                             !.config_updated = r.config_updated,
                             !.d_restart_input = r.restart_input,
                             !.d_restart_output = r.restart_output,
                             !.d_config_updated = r.config_updated,
                             !.saved_codec_config = r.saved_codec_config,
                             !.saved_ota_codec_config = r.saved_ota_codec_config]
               /\ UNCHANGED << regvars, codec_priority_, default_codec_priority_ >>

\* The checks of setCodecOtaConfig without the one of the current codec's user
\* configuration.
OtaConfigTarget_SkipCurrent(p_ota_codec_config) ==
  LET codec_type == A2DP_SourceCodecIndex(p_ota_codec_config) IN
  IF codec_type = BTAV_A2DP_CODEC_INDEX_MAX THEN nullptr
  ELSE IF codec_type \notin indexed_codecs_ THEN nullptr
  ELSE IF ~isCodecConfigEmpty(codec_user_config_[codec_type]) THEN nullptr
  ELSE codec_type

\* A2dpCodecs::setCodecOtaConfig, the checks before the descriptor is called:
\* the descriptor to configure, or nullptr for the `goto fail`.
OtaConfigTarget(p_ota_codec_config) ==
  IF /\ current_codec_config_ # nullptr
     /\ ~isCodecConfigEmpty(codec_user_config_[current_codec_config_])
  THEN nullptr
  ELSE LET codec_type == A2DP_SourceCodecIndex(p_ota_codec_config) IN
       IF codec_type = BTAV_A2DP_CODEC_INDEX_MAX THEN nullptr
       ELSE IF codec_type \notin indexed_codecs_ THEN nullptr
       ELSE IF ~isCodecConfigEmpty(codec_user_config_[codec_type]) THEN nullptr
       ELSE codec_type

\* A setCodecOtaConfig that keeps the adopted descriptor when it fails.
OtaConfigCurrent_NoRestore(success, a2dp_codec_config, last_codec_config) ==
  a2dp_codec_config

\* The current descriptor when setCodecOtaConfig returns: the adopted
\* descriptor on success, the saved one at `fail`.
OtaConfigCurrent(success, a2dp_codec_config, last_codec_config) ==
  IF success THEN a2dp_codec_config ELSE last_codec_config

\* A2dpCodecs::setCodecOtaConfig after last_codec_config was read.
setCodecOtaConfigBody(last_codec_config, p_ota_codec_config) ==
       LET a2dp_codec_config == OtaConfigTarget(p_ota_codec_config)
           thecall == [NoCall EXCEPT !.op = "setCodecOtaConfig",
                                     !.codec_type =
                                        A2DP_SourceCodecIndex(p_ota_codec_config),
                                     !.a2dp_codec_config = a2dp_codec_config,
                                     !.last_codec_config = last_codec_config]
       IN IF a2dp_codec_config = nullptr
          THEN /\ current_codec_config_' = last_codec_config
               /\ call' = thecall
               /\ UNCHANGED << codec_priorities_, initialized, indexed_codecs_,
                               disabled_codecs_, ordered_source_codecs_,
                               ordered_sink_codecs_, descvars >>
          ELSE
            LET codec_user_config == codec_user_config_[a2dp_codec_config]
                codec_audio_config == codec_audio_config_[a2dp_codec_config]
                r == A2dpCodecConfig_setCodecUserConfig(
                       a2dp_codec_config, Descriptor(a2dp_codec_config),
                       codec_user_config, codec_audio_config,
                       p_ota_codec_config, FALSE)
            IN /\ StoreDescriptor(a2dp_codec_config, r.d)
               /\ current_codec_config_' =
                    OtaConfigCurrent(r.success, a2dp_codec_config, last_codec_config)
               /\ call' = [thecall EXCEPT
                             !.ret = r.success,
                             !.restart_input = r.restart_input,
                             !.restart_output = r.restart_output,
                             !.config_updated =
                                FinalConfigUpdated(r.restart_input, r.restart_output,
                                                   r.config_updated),
                             !.d_restart_input = r.restart_input,
                             !.d_restart_output = r.restart_output,
                             !.d_config_updated = r.config_updated,
                             !.saved_codec_config = r.saved_codec_config,
                             !.saved_ota_codec_config = r.saved_ota_codec_config]
               /\ UNCHANGED << codec_priorities_, initialized, indexed_codecs_,
                               disabled_codecs_, ordered_source_codecs_,
                               ordered_sink_codecs_, codec_priority_,
                               default_codec_priority_ >>

\* A2dpCodecs::setCodecOtaConfig from its first statement on, in one step.
setCodecOtaConfigWith(p_ota_codec_config) ==
  setCodecOtaConfigBody(current_codec_config_, p_ota_codec_config)

\* A2dpCodecs::setCodecOtaConfig.
setCodecOtaConfig ==
  /\ initialized /\ nops < MaxOps
  /\ nops' = nops + 1
  /\ UNCHANGED << capvars, lockvars, bufvars >>
  /\ \E p_ota_codec_config \in PeerCodecInfos :
       setCodecOtaConfigWith(p_ota_codec_config)

Next ==
  \/ init
  \/ setCodecConfig
  \/ setSinkCodecConfig
  \/ setCodecUserConfig
  \/ setCodecAudioConfig
  \/ setCodecOtaConfig

Spec == Init /\ [][Next]_vars

\* The registry with every successful setCodecUserConfig followed, possibly,
\* by the same call again.
NextRepeat ==
  \/ init
  \/ setCodecConfig
  \/ setSinkCodecConfig
  \/ setCodecUserConfigRecorded
  \/ setCodecUserConfigRepeated
  \/ setCodecAudioConfig
  \/ setCodecOtaConfig

SpecRepeat == Init /\ [][NextRepeat]_vars

(***************************************************************************)
(* The registry called from two threads.                                   *)
(***************************************************************************)
\* Which object's codec_mutex_ a method of object obj locks: the registry
\* and its descriptors are protected by one lock per registry.
MutexOf_Own(obj) == obj

MutexOf(obj) == A2dpCodecs

\* std::recursive_mutex: lock() returns at once when nobody holds the mutex
\* or the caller does, and blocks otherwise.
lock_available_Always(m, t) == TRUE

lock_available_NonRecursive(m, t) == m.count = 0

lock_available(m, t) == m.count = 0 \/ m.owner = t

\* std::lock_guard: the mutex once the constructor has returned in thread t.
lock_guard(m, t) == [ owner |-> t, count |-> m.count + 1 ]

\* std::lock_guard: the mutex once the destructor has run.
unlock_guard(m) ==
  IF m.count <= 1 THEN Unlocked ELSE [ m EXCEPT !.count = @ - 1 ]

\* The calls the two threads make.
RegistryOps == {"setCodecUserConfig", "setCodecOtaConfig", "setCodecConfig"}

ThreadCalls ==
  { [ NoThreadCall EXCEPT !.op = "setCodecUserConfig",
        !.codec_user_config =
           init_btav_a2dp_codec_config(BTAV_A2DP_CODEC_INDEX_SOURCE_AAC, 2500),
        !.p_peer_codec_info = CodecInfo(A2DP_MEDIA_CT_AAC, 3) ],
    [ NoThreadCall EXCEPT !.op = "setCodecUserConfig",
        !.codec_user_config =
           init_btav_a2dp_codec_config(BTAV_A2DP_CODEC_INDEX_SOURCE_SBC, 2500),
        !.p_peer_codec_info = CodecInfo(A2DP_MEDIA_CT_SBC, 3) ],
    [ NoThreadCall EXCEPT !.op = "setCodecUserConfig",
        !.codec_user_config =
           [ init_btav_a2dp_codec_config(BTAV_A2DP_CODEC_INDEX_MAX,
                                         BTAV_A2DP_CODEC_PRIORITY_DEFAULT)
               EXCEPT !.sample_rate = BTAV_A2DP_CODEC_SAMPLE_RATE_48000 ],
        !.p_peer_codec_info = CodecInfo(A2DP_MEDIA_CT_SBC, 3) ],
    [ NoThreadCall EXCEPT !.op = "setCodecOtaConfig",
        !.p_peer_codec_info = CodecInfo(A2DP_MEDIA_CT_AAC, 3) ],
    [ NoThreadCall EXCEPT !.op = "setCodecConfig",
        !.p_peer_codec_info = CodecInfo(A2DP_MEDIA_CT_AAC, 3) ],
    [ NoThreadCall EXCEPT !.op = "getCodecConfig",
        !.codec_index = BTAV_A2DP_CODEC_INDEX_SOURCE_AAC ] }

\* The object a call locks first: the registry for its own methods, the
\* descriptor for an accessor called on it.
CalledObject(c) == IF c.op \in RegistryOps THEN A2dpCodecs ELSE c.codec_index

\* The object whose method a registry call calls first while it holds the
\* registry's lock, or nullptr when it calls none: findSourceCodecConfig of
\* the registry in setCodecConfig; getCodecAudioConfig of the target in
\* setCodecUserConfig; getCodecUserConfig of the current descriptor, else of
\* the target, in setCodecOtaConfig.
NestedObject(c) ==
  CASE c.op = "setCodecConfig" -> A2dpCodecs
    [] c.op = "setCodecUserConfig" ->
         UserConfigTarget(c.codec_user_config.codec_type)
    [] c.op = "setCodecOtaConfig" ->
         IF current_codec_config_ # nullptr THEN current_codec_config_
         ELSE IF A2DP_SourceCodecIndex(c.p_peer_codec_info) \in indexed_codecs_
              THEN A2DP_SourceCodecIndex(c.p_peer_codec_info)
              ELSE nullptr
    [] OTHER -> nullptr

AllIdle == \A t \in Threads : thread[t].pc = "idle"

\* Thread t calls c: it is at the lock_guard of the method.
ThreadCall(t) ==
  /\ initialized
  /\ thread[t].pc = "idle"
  /\ \E c \in ThreadCalls :
       /\ c.op \notin RegistryOps => c.codec_index \in DOMAIN codec_config_
       /\ thread' = [ thread EXCEPT ![t] = [ c EXCEPT !.pc = "call" ] ]
  /\ UNCHANGED << regvars, descvars, call, nops, capvars, codec_mutex_, bufvars >>

\* The lock_guard of the called method returns; a registry method with a
\* last_codec_config then sets it to current_codec_config_.
ThreadEnter(t) ==
  LET m == MutexOf(CalledObject(thread[t])) IN
  /\ thread[t].pc = "call"
  /\ lock_available(codec_mutex_[m], t)
  /\ codec_mutex_' = [ codec_mutex_ EXCEPT ![m] = lock_guard(@, t) ]
  /\ thread' = [ thread EXCEPT
                   ![t].pc = IF thread[t].op \in RegistryOps
                             THEN "entered" ELSE "reading",
                   ![t].last_codec_config = current_codec_config_ ]
  /\ UNCHANGED << regvars, descvars, call, nops, capvars, bufvars >>

\* The first method the registry call calls takes its lock, if it calls one.
ThreadNestedLock(t) ==
  LET obj == NestedObject(thread[t]) IN
  /\ thread[t].pc = "entered"
  /\ IF obj = nullptr
     THEN /\ thread' = [ thread EXCEPT ![t].pc = "body" ]
          /\ UNCHANGED codec_mutex_
     ELSE /\ lock_available(codec_mutex_[MutexOf(obj)], t)
          /\ codec_mutex_' =
               [ codec_mutex_ EXCEPT ![MutexOf(obj)] = lock_guard(@, t) ]
          /\ thread' = [ thread EXCEPT ![t].pc = "nested", ![t].nested = obj ]
  /\ UNCHANGED << regvars, descvars, call, nops, capvars, bufvars >>

\* The called method returns and its lock_guard releases.
ThreadNestedUnlock(t) ==
  /\ thread[t].pc = "nested"
  /\ codec_mutex_' =
       [ codec_mutex_ EXCEPT ![MutexOf(thread[t].nested)] = unlock_guard(@) ]
  /\ thread' = [ thread EXCEPT ![t].pc = "body", ![t].nested = nullptr ]
  /\ UNCHANGED << regvars, descvars, call, nops, capvars, bufvars >>

\* The registry call does its work, up to its return statement, with the
\* last_codec_config it read when it entered. The writes of the descriptor
\* it calls and of its own code become visible together here: all of them
\* are made while the thread holds the registry's lock.
ThreadBody(t) ==
  LET c == thread[t] IN
  /\ c.pc = "body"
  /\ CASE c.op = "setCodecUserConfig" ->
            setCodecUserConfigBody(c.last_codec_config, c.codec_user_config,
                                   c.p_peer_codec_info, FALSE, FALSE)
       [] c.op = "setCodecOtaConfig" ->
            setCodecOtaConfigBody(c.last_codec_config, c.p_peer_codec_info)
       [] c.op = "setCodecConfig" ->
            SimpleSetCodecConfig("setCodecConfig",
                                 findSourceCodecConfig(c.p_peer_codec_info),
                                 c.p_peer_codec_info, TRUE, TRUE)
  /\ thread' = [ thread EXCEPT ![t].pc = "return", ![t].ret = call'.ret,
                               ![t].restart_input = call'.restart_input,
                               ![t].restart_output = call'.restart_output,
                               ![t].config_updated = call'.config_updated ]
  /\ UNCHANGED << nops, capvars, codec_mutex_, bufvars >>

\* A2dpCodecConfig::getCodecConfig copies codec_config_ of the descriptor.
ThreadRead(t) ==
  /\ thread[t].pc = "reading"
  /\ thread' = [ thread EXCEPT
                   ![t].pc = "return",
                   ![t].codec_user_config = codec_config_[thread[t].codec_index] ]
  /\ UNCHANGED << regvars, descvars, call, nops, capvars, codec_mutex_, bufvars >>

\* The called method returns, by whichever path, and its lock_guard releases.
ThreadReturn(t) ==
  LET m == MutexOf(CalledObject(thread[t])) IN
  /\ thread[t].pc = "return"
  /\ codec_mutex_' = [ codec_mutex_ EXCEPT ![m] = unlock_guard(@) ]
  /\ thread' = [ thread EXCEPT ![t].pc = "done" ]
  /\ UNCHANGED << regvars, descvars, call, nops, capvars, bufvars >>

ThreadStep(t) ==
  \/ ThreadCall(t)
  \/ ThreadEnter(t)
  \/ ThreadNestedLock(t)
  \/ ThreadNestedUnlock(t)
  \/ ThreadBody(t)
  \/ ThreadRead(t)
  \/ ThreadReturn(t)

\* The registry is set up by one thread, with init() and at most one
\* setCodecConfig, and then called from two.
NextThreads ==
  \/ init
  \/ AllIdle /\ call.op = "init" /\ setCodecConfig
  \/ \E t \in Threads : ThreadCall(t)
  \/ \E t \in Threads : ThreadEnter(t)
  \/ \E t \in Threads : ThreadNestedLock(t)
  \/ \E t \in Threads : ThreadNestedUnlock(t)
  \/ \E t \in Threads : ThreadBody(t)
  \/ \E t \in Threads : ThreadRead(t)
  \/ \E t \in Threads : ThreadReturn(t)

SpecThreads == Init /\ [][NextThreads]_vars

\* ThreadBody(t) can be taken exactly when thread t is at "body", and taking
\* it moves the thread on.
BodyEnabled(t) == thread[t].pc = "body"

\* The steps of thread t other than the work of the call.
ThreadLockStep(t) ==
  \/ ThreadEnter(t)
  \/ ThreadNestedLock(t)
  \/ ThreadNestedUnlock(t)
  \/ ThreadRead(t)
  \/ ThreadReturn(t)

\* The threads are scheduled fairly: a thread that can take a step of a call
\* it has made takes it. For the work of the call, weak fairness,
\* WF_vars(ThreadBody(t)), is written out with BodyEnabled(t) for
\* ENABLED <<ThreadBody(t)>>_vars: the thread is infinitely often not at
\* "body".
SpecThreadsFair ==
  /\ SpecThreads
  /\ \A t \in Threads : WF_vars(ThreadLockStep(t))
  /\ \A t \in Threads : []<>(~BodyEnabled(t))

(***************************************************************************)
(* The offload encoder on one negotiated descriptor.                       *)
(***************************************************************************)
\* A vendor information element: length, media type, the vendor tag, the
\* vendor id and the codec id in little endian, then the codec's bytes.
VendorInfo(losc, vendor_id, codec_id, tail) ==
  << losc, 0, A2DP_MEDIA_CT_NON_A2DP,
     vendor_id % 256, (vendor_id \div 256) % 256,
     (vendor_id \div 65536) % 256, (vendor_id \div 16777216) % 256,
     codec_id % 256, (codec_id \div 256) % 256 >> \o tail

\* SBC with 16 blocks, 8 subbands, loudness allocation, bit pool 2..53,
\* 44100 Hz, stereo.
SbcInfoStereo44100 == << 6, 0, A2DP_MEDIA_CT_SBC, 34, 21, 2, 53 >>

\* The wire configurations a descriptor may hold when the encoder runs.
OffloadOtaConfigs ==
  { SbcInfoStereo44100,
    << 6, 0, A2DP_MEDIA_CT_SBC, 17, 21, 2, 53 >>,
    << 6, 0, A2DP_MEDIA_CT_SBC, 34, 170, 20, 35 >>,
    << 6, 1, A2DP_MEDIA_CT_SBC, 34, 21, 2, 53 >>,
    CodecInfo(A2DP_MEDIA_CT_SBC, 3),
    ZeroCodecInfo,
    << 8, 0, A2DP_MEDIA_CT_AAC, 128, 1, 4, 131, 232, 0 >>,
    << 6, 0, UnknownCodecTag, 34, 21, 2, 53 >>,
    VendorInfo(9, 224, 1, << 146 >>),
    VendorInfo(9, 79, 1, << 34 >>),
    VendorInfo(10, A2DP_LDAC_VENDOR_ID, A2DP_LDAC_CODEC_ID, << 32, 1 >>),
    VendorInfo(10, A2DP_LDAC_VENDOR_ID, A2DP_LDAC_CODEC_ID, << 4, 4 >>) }
  \cup { VendorInfo(11, A2DP_LHDC_VENDOR_ID, A2DP_LHDCV3_CODEC_ID,
                    << b9, b10, b11 >>) :
           b9 \in {0, 192}, b10 \in {1, 8, 2, 161, 81, 49},
           b11 \in {1, 2, 4, 177} }
  \cup { VendorInfo(11, A2DP_LHDC_VENDOR_ID, A2DP_LHDCV2_CODEC_ID,
                    << 0, b10, b11 >>) :
           b10 \in {1, 0, 2, 97, 49}, b11 \in {1, 2, 4} }
  \cup { VendorInfo(13, A2DP_LHDC_VENDOR_ID, A2DP_LHDCV5_CODEC_ID,
                    << 4, b10, b11, b12, b13 >>) :
           b10 \in {0, 80, 160, 240}, b11 \in {17, 18, 1},
           b12 \in {0, 71}, b13 \in {0, 1} }

\* The codec_specific_1 values of the negotiated configuration.
OffloadCodecSpecific1s ==
  { 0, 1000, 1001, 1002, 32773, 32775, 32776, 32780 }

\* What the caller's offload structure holds before the call.
OffloadPrevious ==
  { ZeroOffload.codec_info, [ k \in 0 .. (OffloadSize - 1) |-> 165 ] }

\* A registry whose only descriptor i is current and holds a wire
\* configuration of OffloadOtaConfigs.
InitOffload ==
  /\ codec_priorities_ = CHOOSE p \in PriorityTables : TRUE
  /\ initialized = TRUE
  /\ \E ota \in OffloadOtaConfigs, cs1 \in OffloadCodecSpecific1s,
        previous \in OffloadPrevious :
       LET index == A2DP_SourceCodecIndex(ota)
           i == IF index = BTAV_A2DP_CODEC_INDEX_MAX
                THEN BTAV_A2DP_CODEC_INDEX_SOURCE_SBC ELSE index
           given == InitCodecPriority(i, TRUE)
           prio == setCodecPriority(i, given, given)
       IN /\ indexed_codecs_ = {i}
          /\ ordered_source_codecs_ = << i >>
          /\ current_codec_config_ = i
          /\ codec_priority_ = (i :> prio)
          /\ default_codec_priority_ = (i :> given)
          /\ codec_config_ =
               (i :> [ init_btav_a2dp_codec_config(i, prio) EXCEPT
                         !.sample_rate = BTAV_A2DP_CODEC_SAMPLE_RATE_44100,
                         !.bits_per_sample = BTAV_A2DP_CODEC_BITS_PER_SAMPLE_16,
                         !.channel_mode = BTAV_A2DP_CODEC_CHANNEL_MODE_STEREO,
                         !.codec_specific_1 = cs1 ])
          /\ codec_user_config_ =
               (i :> init_btav_a2dp_codec_config(i, BTAV_A2DP_CODEC_PRIORITY_DEFAULT))
          /\ codec_audio_config_ =
               (i :> init_btav_a2dp_codec_config(i, BTAV_A2DP_CODEC_PRIORITY_DEFAULT))
          /\ ota_codec_config_ = (i :> ota)
          /\ codec_local_capability_ = (i :> init_btav_a2dp_codec_config(i, prio))
          /\ codec_selectable_capability_ =
               (i :> init_btav_a2dp_codec_config(i, prio))
          /\ p_a2dp_offload = [ ZeroOffload EXCEPT !.codec_info = previous,
                                                   !.handed = previous ]
  /\ disabled_codecs_ = {}
  /\ ordered_sink_codecs_ = << >>
  /\ call = NoCall
  /\ nops = 0
  /\ codec_mutex_ = [ o \in Objects |-> Unlocked ]
  /\ thread = [ t \in Threads |-> NoThreadCall ]
  /\ codec_info_buffers = << ZeroCodecInfo, ZeroCodecInfo >>
  /\ dispatch = NoDispatch

\* bool A2dpCodecConfig::getCodecSpecificConfig(tBT_A2DP_OFFLOAD*), called on
\* descriptor i by the session path: the lock is taken on entry and released
\* on either return.  It works on a local copy of ota_codec_config_.
getCodecSpecificConfig_Invalidate ==
  /\ ~p_a2dp_offload.called
  /\ \E i \in DOMAIN ota_codec_config_ :
       /\ lock_available(codec_mutex_[MutexOf(i)], "session")
       /\ LET r == getCodecSpecificConfigWith(ota_codec_config_[i],
                     codec_config_[i].codec_specific_1,
                     p_a2dp_offload.codec_info)
          IN /\ p_a2dp_offload' =
                  [ codec_info |-> r.codec_info, called |-> TRUE, ret |-> r.ret,
                    handed |-> p_a2dp_offload.codec_info ]
             /\ ota_codec_config_' =
                  IF r.ret THEN ota_codec_config_
                  ELSE [ ota_codec_config_ EXCEPT ![i] = ZeroCodecInfo ]
  /\ UNCHANGED << regvars, codec_priority_, default_codec_priority_,
                  codec_config_, codec_user_config_, codec_audio_config_,
                  call, nops, capvars, lockvars, codec_info_buffers,
                  dispatch >>

getCodecSpecificConfig ==
  /\ ~p_a2dp_offload.called
  /\ \E i \in DOMAIN ota_codec_config_ :
       /\ lock_available(codec_mutex_[MutexOf(i)], "session")
       /\ LET r == getCodecSpecificConfigWith(ota_codec_config_[i],
                     codec_config_[i].codec_specific_1,
                     p_a2dp_offload.codec_info)
          IN p_a2dp_offload' =
               [ codec_info |-> r.codec_info, called |-> TRUE, ret |-> r.ret,
                 handed |-> p_a2dp_offload.codec_info ]
  /\ UNCHANGED << regvars, descvars, call, nops, capvars, lockvars,
                  codec_info_buffers, dispatch >>

NextOffload == getCodecSpecificConfig

SpecOffload == InitOffload /\ [][NextOffload]_vars

(***************************************************************************)
(* The dispatch functions on buffers a caller hands in.                    *)
(***************************************************************************)
\* Buffers of the three dispatched types, valid and not, and of other types.
DispatchBuffers ==
  { SbcInfoStereo44100,
    << 6, 0, A2DP_MEDIA_CT_SBC, 17, 21, 2, 53 >>,
    ZeroCodecInfo,
    << 8, 0, A2DP_MEDIA_CT_AAC, 128, 1, 4, 131, 232, 0 >>,
    VendorInfo(10, A2DP_LDAC_VENDOR_ID, A2DP_LDAC_CODEC_ID, << 32, 1 >>),
    VendorInfo(11, A2DP_LHDC_VENDOR_ID, A2DP_LHDCV3_CODEC_ID, << 0, 1, 1 >>),
    VendorInfo(9, 79, 1, << 34 >>),
    << 6, 0, UnknownCodecTag, 34, 21, 2, 53 >>,
    << 6, 0, UnknownCodecTag, 17, 21, 2, 53 >>,
    << 6, 0, 1, 34, 21, 2, 53 >>,
    CodecInfo(UnknownCodecTag, 3) }

\* A registry after construction, and two buffers of DispatchBuffers.
InitDispatch ==
  /\ codec_priorities_ = CHOOSE p \in PriorityTables : TRUE
  /\ initialized = FALSE
  /\ indexed_codecs_ = {}
  /\ disabled_codecs_ = {}
  /\ ordered_source_codecs_ = << >>
  /\ ordered_sink_codecs_ = << >>
  /\ current_codec_config_ = nullptr
  /\ codec_priority_ = EmptyMap
  /\ default_codec_priority_ = EmptyMap
  /\ codec_config_ = EmptyMap
  /\ codec_user_config_ = EmptyMap
  /\ codec_audio_config_ = EmptyMap
  /\ ota_codec_config_ = EmptyMap
  /\ call = NoCall
  /\ nops = 0
  /\ codec_local_capability_ = EmptyMap
  /\ codec_selectable_capability_ = EmptyMap
  /\ codec_mutex_ = [ o \in Objects |-> Unlocked ]
  /\ thread = [ t \in Threads |-> NoThreadCall ]
  /\ p_a2dp_offload = ZeroOffload
  /\ codec_info_buffers \in DispatchBuffers \X DispatchBuffers
  /\ dispatch = NoDispatch

\* The six validity predicates applied to the first buffer.
ValidityPredicates ==
  /\ dispatch' =
       [ NoDispatch EXCEPT
           !.op = "validity",
           !.IsSourceCodecValid = A2DP_IsSourceCodecValid(codec_info_buffers[1]),
           !.IsSinkCodecValid = A2DP_IsSinkCodecValid(codec_info_buffers[1]),
           !.IsPeerSourceCodecValid =
              A2DP_IsPeerSourceCodecValid(codec_info_buffers[1]),
           !.IsPeerSinkCodecValid =
              A2DP_IsPeerSinkCodecValid(codec_info_buffers[1]),
           !.IsSinkCodecSupported =
              A2DP_IsSinkCodecSupported(codec_info_buffers[1]),
           !.IsPeerSourceCodecSupported =
              A2DP_IsPeerSourceCodecSupported(codec_info_buffers[1]) ]
  /\ UNCHANGED << regvars, descvars, call, nops, capvars, lockvars,
                  p_a2dp_offload, codec_info_buffers >>

\* A2DP_CodecTypeEquals and A2DP_CodecEquals applied to the two buffers.
CodecEqualities ==
  /\ dispatch' =
       [ NoDispatch EXCEPT
           !.op = "equals",
           !.CodecTypeEquals =
              A2DP_CodecTypeEquals(codec_info_buffers[1], codec_info_buffers[2]),
           !.CodecEquals =
              A2DP_CodecEquals(codec_info_buffers[1], codec_info_buffers[2]) ]
  /\ UNCHANGED << regvars, descvars, call, nops, capvars, lockvars,
                  p_a2dp_offload, codec_info_buffers >>

\* The accessors applied to the first buffer; getTrackBitRate is the one of
\* a descriptor whose ota_codec_config_ is that buffer.
Accessors ==
  /\ \E content_protection_enabled \in BOOLEAN :
       dispatch' =
         [ NoDispatch EXCEPT
             !.op = "accessors",
             !.content_protection_enabled = content_protection_enabled,
             !.GetTrackSampleRate = A2DP_GetTrackSampleRate(codec_info_buffers[1]),
             !.GetTrackBitsPerSample =
                A2DP_GetTrackBitsPerSample(codec_info_buffers[1]),
             !.GetTrackChannelCount =
                A2DP_GetTrackChannelCount(codec_info_buffers[1]),
             !.GetSinkTrackChannelType =
                A2DP_GetSinkTrackChannelType(codec_info_buffers[1]),
             !.getTrackBitRate = getTrackBitRate(codec_info_buffers[1]),
             !.GetEncoderInterface = A2DP_GetEncoderInterface(codec_info_buffers[1]),
             !.GetDecoderInterface = A2DP_GetDecoderInterface(codec_info_buffers[1]),
             !.CodecName = A2DP_CodecName(codec_info_buffers[1]),
             !.SourceCodecIndex = A2DP_SourceCodecIndex(codec_info_buffers[1]),
             !.SinkCodecIndex = A2DP_SinkCodecIndex(codec_info_buffers[1]),
             !.GetEecoderEffectiveFrameSize =
                A2DP_GetEecoderEffectiveFrameSize(codec_info_buffers[1]),
             !.UsesRtpHeader =
                A2DP_UsesRtpHeader(content_protection_enabled,
                                   codec_info_buffers[1]) ]
  /\ UNCHANGED << regvars, descvars, call, nops, capvars, lockvars,
                  p_a2dp_offload, codec_info_buffers >>

NextDispatch ==
  \/ ValidityPredicates
  \/ CodecEqualities
  \/ Accessors

SpecDispatch == InitDispatch /\ [][NextDispatch]_vars

(***************************************************************************)
(* Peer capabilities and the report of configuration and capabilities.     *)
(***************************************************************************)
\* Peer capability buffers handed to setPeerSinkCodecCapabilities; their
\* parameter byte names the peer's sample rates.
PeerCapabilities ==
  { << 6, 0, A2DP_MEDIA_CT_SBC, 3, 21, 2, 53 >>,
    << 6, 0, A2DP_MEDIA_CT_SBC, 4, 21, 2, 53 >>,
    << 8, 0, A2DP_MEDIA_CT_AAC, 3, 1, 4, 131, 232, 0 >>,
    << 6, 0, UnknownCodecTag, 3, 21, 2, 53 >>,
    CodecInfo(A2DP_MEDIA_CT_SBC, 3) }

\* The descriptor's setPeerCodecCapabilities: the selectable capability
\* becomes what the peer and the codec both support.
A2dpCodecConfig_setPeerCodecCapabilities(codec_local_capability, p_peer_codec_capabilities) ==
  LET common == RateBits(At(p_peer_codec_capabilities, 3)) \cap LocalSampleRates
  IN [ codec_local_capability EXCEPT
         !.sample_rate =
            (IF BTAV_A2DP_CODEC_SAMPLE_RATE_44100 \in common
             THEN BTAV_A2DP_CODEC_SAMPLE_RATE_44100 ELSE 0)
            + (IF BTAV_A2DP_CODEC_SAMPLE_RATE_48000 \in common
               THEN BTAV_A2DP_CODEC_SAMPLE_RATE_48000 ELSE 0),
         !.bits_per_sample = BTAV_A2DP_CODEC_BITS_PER_SAMPLE_16,
         !.channel_mode = BTAV_A2DP_CODEC_CHANNEL_MODE_STEREO ]

\* A2dpCodecs::setPeerSinkCodecCapabilities.
setPeerSinkCodecCapabilities ==
  /\ initialized /\ nops < MaxOps
  /\ nops' = nops + 1
  /\ \E p_peer_codec_capabilities \in PeerCapabilities :
       LET a2dp_codec_config == findSourceCodecConfig(p_peer_codec_capabilities)
           success == /\ A2DP_IsPeerSinkCodecValid(p_peer_codec_capabilities)
                      /\ a2dp_codec_config # nullptr
       IN /\ call' = [ NoCall EXCEPT
                         !.op = "setPeerSinkCodecCapabilities",
                         !.p_peer_codec_info = p_peer_codec_capabilities,
                         !.a2dp_codec_config =
                            IF A2DP_IsPeerSinkCodecValid(p_peer_codec_capabilities)
                            THEN a2dp_codec_config ELSE nullptr,
                         !.ret = success ]
          /\ codec_selectable_capability_' =
               IF success
               THEN [ codec_selectable_capability_ EXCEPT
                        ![a2dp_codec_config] =
                           A2dpCodecConfig_setPeerCodecCapabilities(
                             codec_local_capability_[a2dp_codec_config],
                             p_peer_codec_capabilities) ]
               ELSE codec_selectable_capability_
  /\ UNCHANGED << regvars, descvars, codec_local_capability_, lockvars, bufvars >>

\* A2dpCodecs::setPeerSourceCodecCapabilities.
setPeerSourceCodecCapabilities ==
  /\ initialized /\ nops < MaxOps
  /\ nops' = nops + 1
  /\ \E p_peer_codec_capabilities \in PeerCapabilities :
       LET a2dp_codec_config == findSinkCodecConfig(p_peer_codec_capabilities)
           success == /\ A2DP_IsPeerSourceCodecValid(p_peer_codec_capabilities)
                      /\ a2dp_codec_config # nullptr
       IN /\ call' = [ NoCall EXCEPT
                         !.op = "setPeerSourceCodecCapabilities",
                         !.p_peer_codec_info = p_peer_codec_capabilities,
                         !.a2dp_codec_config =
                            IF A2DP_IsPeerSourceCodecValid(p_peer_codec_capabilities)
                            THEN a2dp_codec_config ELSE nullptr,
                         !.ret = success ]
          /\ codec_selectable_capability_' =
               IF success
               THEN [ codec_selectable_capability_ EXCEPT
                        ![a2dp_codec_config] =
                           A2dpCodecConfig_setPeerCodecCapabilities(
                             codec_local_capability_[a2dp_codec_config],
                             p_peer_codec_capabilities) ]
               ELSE codec_selectable_capability_
  /\ UNCHANGED << regvars, descvars, codec_local_capability_, lockvars, bufvars >>

\* "Don't add entries that cannot be used".
CannotBeUsed_Never(codec_capability) == FALSE

CannotBeUsed(codec_capability) ==
  \/ codec_capability.sample_rate = BTAV_A2DP_CODEC_SAMPLE_RATE_NONE
  \/ codec_capability.bits_per_sample = BTAV_A2DP_CODEC_BITS_PER_SAMPLE_NONE
  \/ codec_capability.channel_mode = BTAV_A2DP_CODEC_CHANNEL_MODE_NONE

\* The second loop over orderedSourceCodecs().
RECURSIVE SelectableCapabilities(_)
SelectableCapabilities(codecs) ==
  IF codecs = << >> THEN << >>
  ELSE LET codec_capability == codec_selectable_capability_[Head(codecs)]
       IN IF CannotBeUsed(codec_capability)
          THEN SelectableCapabilities(Tail(codecs))
          ELSE << codec_capability >> \o SelectableCapabilities(Tail(codecs))

\* A2dpCodecs::getCodecConfigAndCapabilities: the three results are kept in
\* the call record.
getCodecConfigAndCapabilities ==
  /\ initialized
  /\ call.op # "getCodecConfigAndCapabilities"
  /\ lock_available(codec_mutex_[MutexOf(A2dpCodecs)], "session")
  /\ call' =
       [ op |-> "getCodecConfigAndCapabilities",
         ret |-> TRUE,
         p_codec_config |->
           IF current_codec_config_ # nullptr
           THEN codec_config_[current_codec_config_]
           ELSE init_btav_a2dp_codec_config(0, 0),
         p_codecs_local_capabilities |->
           [ k \in 1 .. Len(ordered_source_codecs_) |->
               codec_local_capability_[ordered_source_codecs_[k]] ],
         p_codecs_selectable_capabilities |->
           SelectableCapabilities(ordered_source_codecs_) ] @@ NoCall
  /\ UNCHANGED << regvars, descvars, nops, capvars, lockvars, bufvars >>

NextCapabilities ==
  \/ init
  \/ setCodecConfig
  \/ setPeerSinkCodecCapabilities
  \/ setPeerSourceCodecCapabilities
  \/ getCodecConfigAndCapabilities

SpecCapabilities == Init /\ [][NextCapabilities]_vars

\* The registry under every operation that writes it: the negotiation
\* operations and the two that record a peer's capabilities.
NextRegistry ==
  \/ init
  \/ setCodecConfig
  \/ setSinkCodecConfig
  \/ setCodecUserConfig
  \/ setCodecAudioConfig
  \/ setCodecOtaConfig
  \/ setPeerSinkCodecCapabilities
  \/ setPeerSourceCodecCapabilities

SpecRegistry == Init /\ [][NextRegistry]_vars

(***************************************************************************)
(* The vendor extension entry point A2dpCodecs::getLHDCCodecUserConfig.    *)
(* The constants below are declared in the LHDC headers, outside this      *)
(* file: the command header is a 4-byte version and a 4-byte code, both    *)
(* big endian, followed by the byte that names the snapshot.               *)
(***************************************************************************)
BT_STATUS_SUCCESS == 0
BT_STATUS_FAIL == 1

\* The LHDC source indices. No descriptor of the modelled registry has one
\* of them; the peerCodec argument of the entry point can.
BTAV_A2DP_CODEC_INDEX_SOURCE_LHDCV2 == 102
BTAV_A2DP_CODEC_INDEX_SOURCE_LHDCV3 == 103
BTAV_A2DP_CODEC_INDEX_SOURCE_LHDCV5 == 105

LHDC_EXTEND_FUNC_CONFIG_API_VERSION_SIZE == 4
LHDC_EXTEND_FUNC_CONFIG_API_CODE_SIZE == 4
LHDC_EXTEND_FUNC_CONFIG_API_CODE_HEAD == 4
LHDC_EXTEND_FUNC_CONFIG_A2DPCFG_CODE_HEAD == 8
LHDC_EXTEND_FUNC_CODE_A2DP_TYPE_MASK == 10
LHDC_EXTEND_FUNC_CODE_LIB_TYPE_MASK == 12
EXTEND_FUNC_CODE_GET_SPECIFIC == 167837697
EXTEND_FUNC_VER_GET_SPECIFIC_V1 == 16777216
EXTEND_FUNC_VER_GET_SPECIFIC_V2 == 33554432

LHDC_EXTEND_FUNC_A2DP_TYPE_SPECIFICS_FINAL_CFG == 1
LHDC_EXTEND_FUNC_A2DP_TYPE_SPECIFICS_FINAL_CAP == 2
LHDC_EXTEND_FUNC_A2DP_TYPE_SPECIFICS_LOCAL_CAP == 3
LHDC_EXTEND_FUNC_A2DP_TYPE_SPECIFICS_SELECTABLE_CAP == 4
LHDC_EXTEND_FUNC_A2DP_TYPE_SPECIFICS_USER_CFG == 5
LHDC_EXTEND_FUNC_A2DP_TYPE_SPECIFICS_AUDIO_CFG == 6

LHDC_EXTEND_FUNC_A2DP_SPECIFICS1_HEAD_V1 == 9
LHDC_EXTEND_FUNC_A2DP_SPECIFICS2_HEAD_V1 == 17
LHDC_EXTEND_FUNC_A2DP_SPECIFICS3_HEAD_V1 == 25
LHDC_EXTEND_FUNC_A2DP_SPECIFICS4_HEAD_V1 == 33
LHDC_EXTEND_FUNC_CONFIG_TOTAL_FIXED_SIZE_V1 == 41
LHDC_EXTEND_FUNC_A2DP_SPECIFICS1_HEAD_V2 == 9
LHDC_EXTEND_FUNC_A2DP_SPECIFICS2_HEAD_V2 == 17
LHDC_EXTEND_FUNC_A2DP_SPECIFICS3_HEAD_V2 == 25
LHDC_EXTEND_FUNC_A2DP_SPECIFICS4_HEAD_V2 == 33
LHDC_EXTEND_FUNC_A2DP_CAPMETA_HEAD_V2 == 41
LHDC_EXTEND_FUNC_CONFIG_TOTAL_FIXED_SIZE_V2 == 48

\* The bytes of memory at the caller's pointer that the model holds, as many
\* as the longest command: the first clen of them are the caller's buffer,
\* the rest is what lies behind it.
MemorySize == LHDC_EXTEND_FUNC_CONFIG_TOTAL_FIXED_SIZE_V2

\* A null codecConfig.
NullConfig == << >>

\* swapInt64toByteArray: integer64 in big endian at byteArray[head..head+7].
\* The values of the model are below 2^31, so the upper four bytes are 0.
swapInt64toByteArray(byteArray, head, integer64) ==
  [ k \in 1 .. Len(byteArray) |->
      IF k - 1 < head \/ k - 1 > head + 7 THEN byteArray[k]
      ELSE IF k - 1 < head + 4 THEN 0
      ELSE (integer64 \div (256 ^ (head + 7 - (k - 1)))) % 256 ]

\* The four specifics of a2dpCfg at their heads.
CopySpecifics(a2dpCfg, pucConfig, h1, h2, h3, h4) ==
  swapInt64toByteArray(
    swapInt64toByteArray(
      swapInt64toByteArray(
        swapInt64toByteArray(pucConfig, h1, a2dpCfg.codec_specific_1),
        h2, a2dpCfg.codec_specific_2),
      h3, a2dpCfg.codec_specific_3),
    h4, a2dpCfg.codec_specific_4)

\* getLHDCA2DPSpecficV1.
getLHDCA2DPSpecficV1(a2dpCfg, pucConfig, clen) ==
  IF clen < LHDC_EXTEND_FUNC_CONFIG_TOTAL_FIXED_SIZE_V1
  THEN [ ret |-> FALSE, pucConfig |-> pucConfig ]
  ELSE [ ret |-> TRUE,
         pucConfig |->
           CopySpecifics(a2dpCfg, pucConfig,
                         LHDC_EXTEND_FUNC_A2DP_SPECIFICS1_HEAD_V1,
                         LHDC_EXTEND_FUNC_A2DP_SPECIFICS2_HEAD_V1,
                         LHDC_EXTEND_FUNC_A2DP_SPECIFICS3_HEAD_V1,
                         LHDC_EXTEND_FUNC_A2DP_SPECIFICS4_HEAD_V1) ]

\* getLHDCA2DPSpecficV2. A2DP_VendorGetSrcCapVectorLhdcv3 is a function of
\* the LHDC codec; src_cap_vector is what it answers and the bytes it puts
\* at the capability metadata head.
getLHDCA2DPSpecficV2(a2dpCfg, pucConfig, clen, src_cap_vector) ==
  IF clen < LHDC_EXTEND_FUNC_CONFIG_TOTAL_FIXED_SIZE_V2
  THEN [ ret |-> FALSE, pucConfig |-> pucConfig ]
  ELSE LET copied ==
             CopySpecifics(a2dpCfg, pucConfig,
                           LHDC_EXTEND_FUNC_A2DP_SPECIFICS1_HEAD_V2,
                           LHDC_EXTEND_FUNC_A2DP_SPECIFICS2_HEAD_V2,
                           LHDC_EXTEND_FUNC_A2DP_SPECIFICS3_HEAD_V2,
                           LHDC_EXTEND_FUNC_A2DP_SPECIFICS4_HEAD_V2)
           filled ==
             [ k \in 1 .. Len(copied) |->
                 IF /\ k - 1 >= LHDC_EXTEND_FUNC_A2DP_CAPMETA_HEAD_V2
                    /\ k - LHDC_EXTEND_FUNC_A2DP_CAPMETA_HEAD_V2
                         <= Len(src_cap_vector.bytes)
                 THEN src_cap_vector.bytes[k - LHDC_EXTEND_FUNC_A2DP_CAPMETA_HEAD_V2]
                 ELSE copied[k] ]
       IN [ ret |-> src_cap_vector.ret, pucConfig |-> filled ]

\* The 32-bit big-endian word at pucConfig[head..head+3].
Word32(pucConfig, head) ==
  pucConfig[head + 4] + 256 * pucConfig[head + 3]
    + 65536 * pucConfig[head + 2] + 16777216 * pucConfig[head + 1]

\* The selectors of the descriptor's snapshots.
SpecificsTypes ==
  { LHDC_EXTEND_FUNC_A2DP_TYPE_SPECIFICS_FINAL_CFG,
    LHDC_EXTEND_FUNC_A2DP_TYPE_SPECIFICS_FINAL_CAP,
    LHDC_EXTEND_FUNC_A2DP_TYPE_SPECIFICS_LOCAL_CAP,
    LHDC_EXTEND_FUNC_A2DP_TYPE_SPECIFICS_SELECTABLE_CAP,
    LHDC_EXTEND_FUNC_A2DP_TYPE_SPECIFICS_USER_CFG,
    LHDC_EXTEND_FUNC_A2DP_TYPE_SPECIFICS_AUDIO_CFG }

\* What a call of getLHDCCodecUserConfig that stops without a result leaves.
ExtensionFail(codecConfig, read, current_read) ==
  [ result |-> BT_STATUS_FAIL, pucConfig |-> codecConfig, read |-> read,
    current_read |-> current_read, snapshot |-> 0, delegated |-> FALSE ]

\* A2dpCodecs::getLHDCCodecUserConfig. peerCodecIndex is nullptr for a null
\* peerCodec, else its codecIndex(); current is current_codec_config_ as the
\* function reads it and snapshots the six snapshots of that descriptor;
\* delegated_result is what the LHDC codec's own entry point answers. The
\* result holds the returned status, the buffer, the offsets of codecConfig
\* this function has read, whether it has read current_codec_config_, and
\* the snapshot it has copied.
getLHDCCodecUserConfigWith(peerCodecIndex, codecConfig, clen, current, snapshots, delegated_result, src_cap_vector) ==
  IF peerCodecIndex = nullptr \/ codecConfig = NullConfig
  THEN ExtensionFail(codecConfig, {}, FALSE)
  ELSE IF peerCodecIndex = BTAV_A2DP_CODEC_INDEX_SOURCE_LHDCV5
  THEN [ ExtensionFail(codecConfig, {}, FALSE) EXCEPT
           !.result = delegated_result, !.delegated = TRUE ]
  ELSE IF peerCodecIndex # BTAV_A2DP_CODEC_INDEX_SOURCE_LHDCV3
  THEN ExtensionFail(codecConfig, {}, FALSE)
  ELSE LET code_head == {LHDC_EXTEND_FUNC_CONFIG_API_CODE_HEAD}
           header == 0 .. (LHDC_EXTEND_FUNC_CONFIG_API_VERSION_SIZE
                           + LHDC_EXTEND_FUNC_CONFIG_API_CODE_SIZE - 1)
           a2dpcfg == {LHDC_EXTEND_FUNC_CONFIG_A2DPCFG_CODE_HEAD}
           exFuncVer == Word32(codecConfig, 0)
           exFuncCode == Word32(codecConfig, LHDC_EXTEND_FUNC_CONFIG_API_CODE_HEAD)
           type == codecConfig[LHDC_EXTEND_FUNC_CONFIG_A2DPCFG_CODE_HEAD + 1]
       IN
       IF codecConfig[LHDC_EXTEND_FUNC_CONFIG_API_CODE_HEAD + 1]
            = LHDC_EXTEND_FUNC_CODE_A2DP_TYPE_MASK
       THEN IF clen < LHDC_EXTEND_FUNC_CONFIG_API_VERSION_SIZE
                        + LHDC_EXTEND_FUNC_CONFIG_API_CODE_SIZE
            THEN ExtensionFail(codecConfig, code_head, FALSE)
            ELSE IF current = nullptr
            THEN ExtensionFail(codecConfig, code_head, TRUE)
            ELSE IF exFuncCode # EXTEND_FUNC_CODE_GET_SPECIFIC
            THEN ExtensionFail(codecConfig, header, TRUE)
            ELSE IF type \notin SpecificsTypes
            THEN ExtensionFail(codecConfig, header \cup a2dpcfg, TRUE)
            ELSE LET codec_config_tmp == snapshots[type]
                     r == IF exFuncVer = EXTEND_FUNC_VER_GET_SPECIFIC_V1
                          THEN getLHDCA2DPSpecficV1(codec_config_tmp,
                                                    codecConfig, clen)
                          ELSE IF exFuncVer = EXTEND_FUNC_VER_GET_SPECIFIC_V2
                          THEN getLHDCA2DPSpecficV2(codec_config_tmp, codecConfig,
                                                    clen, src_cap_vector)
                          ELSE [ ret |-> FALSE, pucConfig |-> codecConfig ]
                 IN [ result |-> IF r.ret THEN BT_STATUS_SUCCESS
                                 ELSE BT_STATUS_FAIL,
                      pucConfig |-> r.pucConfig,
                      read |-> header \cup a2dpcfg,
                      current_read |-> TRUE,
                      snapshot |-> type,
                      delegated |-> FALSE ]
       ELSE IF codecConfig[LHDC_EXTEND_FUNC_CONFIG_API_CODE_HEAD + 1]
                 = LHDC_EXTEND_FUNC_CODE_LIB_TYPE_MASK
       THEN [ ExtensionFail(codecConfig, code_head, FALSE) EXCEPT
                !.result = delegated_result, !.delegated = TRUE ]
       ELSE ExtensionFail(codecConfig, code_head, FALSE)

\* The command header and snapshot selector of a request, and the memory
\* behind them.
Bytes32(w) ==
  << w \div 16777216, (w \div 65536) % 256, (w \div 256) % 256, w % 256 >>

ExtensionRequest(exFuncVer, exFuncCode, type) ==
  Bytes32(exFuncVer) \o Bytes32(exFuncCode) \o << type >>
    \o [ k \in 1 .. (MemorySize - 9) |-> 0 ]

\* The six snapshots of descriptor a2dp_codec_config by selector.
\* codec_capability_ is written by the codecs' own setCodecConfig only and is
\* no variable of the model: codec_capability is what it holds.
SnapshotsOf(a2dp_codec_config, codec_capability) ==
  IF a2dp_codec_config = nullptr THEN << >>
  ELSE << codec_config_[a2dp_codec_config],
          codec_capability,
          codec_local_capability_[a2dp_codec_config],
          codec_selectable_capability_[a2dp_codec_config],
          codec_user_config_[a2dp_codec_config],
          codec_audio_config_[a2dp_codec_config] >>

CodecCapabilityOf(a2dp_codec_config) ==
  { codec_local_capability_[a2dp_codec_config],
    codec_selectable_capability_[a2dp_codec_config] }

\* What A2DP_VendorGetSrcCapVectorLhdcv3 answers.
SrcCapVectors ==
  { [ ret |-> FALSE, bytes |-> << >> ],
    [ ret |-> TRUE, bytes |-> << 1, 0, 0, 0, 0, 0, 1 >> ] }

(***************************************************************************)
(* getLHDCCodecUserConfig called while another thread is in                *)
(* setCodecOtaConfig.                                                      *)
(***************************************************************************)
\* The calls the two threads make: setCodecOtaConfig with a buffer the AAC
\* descriptor accepts, one it refuses and one of no codec, and
\* getLHDCCodecUserConfig with a request for the negotiated configuration
\* and with one whose buffer ends before the command code.
ExtensionCalls ==
  { [ NoThreadCall EXCEPT !.op = "setCodecOtaConfig", !.p_peer_codec_info = p ]
      @@ [ peerCodecIndex |-> nullptr, clen |-> 0, current_read |-> FALSE ] :
      p \in { CodecInfo(A2DP_MEDIA_CT_AAC, 3), CodecInfo(A2DP_MEDIA_CT_AAC, 4),
              CodecInfo(UnknownCodecTag, 3) } }
  \cup
  { [ NoThreadCall EXCEPT
        !.op = "getLHDCCodecUserConfig",
        !.p_peer_codec_info =
           ExtensionRequest(EXTEND_FUNC_VER_GET_SPECIFIC_V1,
                            EXTEND_FUNC_CODE_GET_SPECIFIC,
                            LHDC_EXTEND_FUNC_A2DP_TYPE_SPECIFICS_FINAL_CFG) ]
      @@ [ peerCodecIndex |-> BTAV_A2DP_CODEC_INDEX_SOURCE_LHDCV3,
           clen |-> n, current_read |-> FALSE ] :
      n \in { LHDC_EXTEND_FUNC_CONFIG_TOTAL_FIXED_SIZE_V1,
              LHDC_EXTEND_FUNC_CONFIG_API_VERSION_SIZE } }

\* Thread t calls c. setCodecOtaConfig starts with a lock_guard;
\* getLHDCCodecUserConfig has none.
ExtensionCall(t) ==
  /\ initialized
  /\ thread[t].pc = "idle"
  /\ \E c \in ExtensionCalls :
       thread' = [ thread EXCEPT
                     ![t] = [ c EXCEPT !.pc = IF c.op = "setCodecOtaConfig"
                                              THEN "call" ELSE "unlocked" ] ]
  /\ UNCHANGED << regvars, descvars, call, nops, capvars, codec_mutex_, bufvars >>

\* setCodecOtaConfig up to `current_codec_config_ = a2dp_codec_config`, or
\* to `fail:` when one of the checks before it fails.
OtaAdopt(t) ==
  LET c == thread[t]
      a2dp_codec_config == OtaConfigTarget(c.p_peer_codec_info) IN
  /\ c.pc = "body" /\ c.op = "setCodecOtaConfig"
  /\ IF a2dp_codec_config = nullptr
     THEN /\ setCodecOtaConfigBody(c.last_codec_config, c.p_peer_codec_info)
          /\ thread' = [ thread EXCEPT ![t].pc = "return", ![t].ret = FALSE ]
     ELSE /\ current_codec_config_' = a2dp_codec_config
          /\ thread' = [ thread EXCEPT ![t].pc = "adopted" ]
          /\ UNCHANGED << codec_priorities_, initialized, indexed_codecs_,
                          disabled_codecs_, ordered_source_codecs_,
                          ordered_sink_codecs_, descvars, call >>
  /\ UNCHANGED << nops, capvars, codec_mutex_, bufvars >>

\* setCodecOtaConfig from the descriptor's setCodecUserConfig to its return
\* statement. The checks before the adoption give the same descriptor again:
\* its user configuration is empty and it is the current one.
OtaConfigure(t) ==
  LET c == thread[t] IN
  /\ c.pc = "adopted"
  /\ setCodecOtaConfigBody(c.last_codec_config, c.p_peer_codec_info)
  /\ thread' = [ thread EXCEPT ![t].pc = "return", ![t].ret = call'.ret,
                               ![t].restart_input = call'.restart_input,
                               ![t].restart_output = call'.restart_output,
                               ![t].config_updated = call'.config_updated ]
  /\ UNCHANGED << nops, capvars, codec_mutex_, bufvars >>

\* getLHDCCodecUserConfig up to `a2dp_codec_config = current_codec_config_`,
\* or to its return when it stops before or at the NULL check. The pointer
\* it has read is kept in codec_index.
LhdcReadCurrent(t) ==
  LET c == thread[t]
      r == getLHDCCodecUserConfigWith(
             c.peerCodecIndex, c.p_peer_codec_info, c.clen,
             current_codec_config_,
             SnapshotsOf(current_codec_config_,
                         init_btav_a2dp_codec_config(0, 0)),
             BT_STATUS_FAIL, [ ret |-> FALSE, bytes |-> << >> ])
  IN
  /\ c.pc = "unlocked"
  /\ thread' = [ thread EXCEPT
                   ![t].pc = IF r.snapshot = 0 THEN "done" ELSE "snapshot",
                   ![t].current_read = r.current_read,
                   ![t].codec_index =
                      IF r.snapshot = 0 THEN @ ELSE current_codec_config_ ]
  /\ UNCHANGED << regvars, descvars, call, nops, capvars, codec_mutex_, bufvars >>

\* getLHDCCodecUserConfig from the accessor of the descriptor it has read,
\* which takes the descriptor's lock, to its return.
LhdcCopySnapshot(t) ==
  LET c == thread[t] IN
  /\ c.pc = "snapshot"
  /\ lock_available(codec_mutex_[MutexOf(c.codec_index)], t)
  /\ \E codec_capability \in CodecCapabilityOf(c.codec_index),
        src_cap_vector \in SrcCapVectors :
       LET r == getLHDCCodecUserConfigWith(
                  c.peerCodecIndex, c.p_peer_codec_info, c.clen, c.codec_index,
                  SnapshotsOf(c.codec_index, codec_capability),
                  BT_STATUS_FAIL, src_cap_vector)
       IN thread' = [ thread EXCEPT
                        ![t].pc = "done",
                        ![t].ret = (r.result = BT_STATUS_SUCCESS),
                        ![t].p_peer_codec_info = r.pucConfig,
                        ![t].codec_user_config =
                           SnapshotsOf(c.codec_index, codec_capability)[r.snapshot] ]
  /\ UNCHANGED << regvars, descvars, call, nops, capvars, codec_mutex_, bufvars >>

\* The registry is set up by one thread, with init() and at most one
\* setCodecConfig, and then called from two.
NextExtension ==
  \/ init
  \/ AllIdle /\ call.op = "init" /\ setCodecConfig
  \/ \E t \in Threads : ExtensionCall(t)
  \/ \E t \in Threads : ThreadEnter(t)
  \/ \E t \in Threads : ThreadNestedLock(t)
  \/ \E t \in Threads : ThreadNestedUnlock(t)
  \/ \E t \in Threads : OtaAdopt(t)
  \/ \E t \in Threads : OtaConfigure(t)
  \/ \E t \in Threads : ThreadReturn(t)
  \/ \E t \in Threads : LhdcReadCurrent(t)
  \/ \E t \in Threads : LhdcCopySnapshot(t)

SpecExtension == Init /\ [][NextExtension]_vars

(***************************************************************************)
(* getLHDCCodecUserConfig called by one thread on buffers of every length. *)
(* codecConfig points into MemorySize bytes of the caller's memory, of     *)
(* which the first clen are the buffer; what lies behind them is whatever  *)
(* the request below holds there.                                          *)
(***************************************************************************)
\* The peerCodec arguments: null, the three LHDC descriptors, another one.
UserConfigPeerCodecs ==
  { nullptr, BTAV_A2DP_CODEC_INDEX_SOURCE_LHDCV2,
    BTAV_A2DP_CODEC_INDEX_SOURCE_LHDCV3, BTAV_A2DP_CODEC_INDEX_SOURCE_LHDCV5,
    BTAV_A2DP_CODEC_INDEX_SOURCE_SBC }

\* The memory codecConfig points to: a null pointer, or a command header
\* with a known or unknown version, a code of the A2DP group, of the library
\* group or of neither, and a snapshot selector.
UserConfigRequests ==
  { NullConfig } \cup
  { ExtensionRequest(exFuncVer, exFuncCode, type) :
      exFuncVer \in { EXTEND_FUNC_VER_GET_SPECIFIC_V1,
                      EXTEND_FUNC_VER_GET_SPECIFIC_V2, 0 },
      exFuncCode \in { EXTEND_FUNC_CODE_GET_SPECIFIC,
                       EXTEND_FUNC_CODE_GET_SPECIFIC + 1,
                       EXTEND_FUNC_CODE_GET_SPECIFIC
                         + 2 * (LHDC_EXTEND_FUNC_CODE_LIB_TYPE_MASK
                                - LHDC_EXTEND_FUNC_CODE_A2DP_TYPE_MASK) * 8388608,
                       0 },
      type \in { LHDC_EXTEND_FUNC_A2DP_TYPE_SPECIFICS_FINAL_CFG,
                 LHDC_EXTEND_FUNC_A2DP_TYPE_SPECIFICS_AUDIO_CFG, 0 } }

\* The lengths the caller states: none, the version alone, the header, the
\* header and the selector, and one byte less than, and all of, what the two
\* versions of the answer need.
UserConfigLengths ==
  { 0,
    LHDC_EXTEND_FUNC_CONFIG_API_VERSION_SIZE,
    LHDC_EXTEND_FUNC_CONFIG_API_VERSION_SIZE
      + LHDC_EXTEND_FUNC_CONFIG_API_CODE_SIZE,
    LHDC_EXTEND_FUNC_CONFIG_A2DPCFG_CODE_HEAD + 1,
    LHDC_EXTEND_FUNC_CONFIG_TOTAL_FIXED_SIZE_V1 - 1,
    LHDC_EXTEND_FUNC_CONFIG_TOTAL_FIXED_SIZE_V1,
    LHDC_EXTEND_FUNC_CONFIG_TOTAL_FIXED_SIZE_V2 - 1,
    LHDC_EXTEND_FUNC_CONFIG_TOTAL_FIXED_SIZE_V2 }

\* int A2dpCodecs::getLHDCCodecUserConfig(peerCodec, codecConfig, clen),
\* called while no other thread is in the registry. The call record keeps
\* the arguments and what the call did; the call is the last one followed.
getLHDCCodecUserConfig ==
  /\ initialized /\ nops < MaxOps
  /\ nops' = MaxOps
  /\ \E peerCodecIndex \in UserConfigPeerCodecs,
        codecConfig \in UserConfigRequests, clen \in UserConfigLengths,
        delegated_result \in {BT_STATUS_SUCCESS, BT_STATUS_FAIL},
        src_cap_vector \in SrcCapVectors :
       \E codec_capability \in
            IF current_codec_config_ = nullptr THEN { << >> }
            ELSE CodecCapabilityOf(current_codec_config_) :
         LET r == getLHDCCodecUserConfigWith(
                    peerCodecIndex, codecConfig, clen, current_codec_config_,
                    SnapshotsOf(current_codec_config_, codec_capability),
                    delegated_result, src_cap_vector)
         IN call' = [ NoCall EXCEPT !.op = "getLHDCCodecUserConfig",
                                    !.a2dp_codec_config = current_codec_config_ ]
                      @@ [ peerCodecIndex |-> peerCodecIndex,
                           codecConfig |-> codecConfig, clen |-> clen,
                           result |-> r.result, pucConfig |-> r.pucConfig,
                           read |-> r.read, snapshot |-> r.snapshot,
                           delegated |-> r.delegated ]
  /\ UNCHANGED << regvars, descvars, capvars, lockvars, bufvars >>

NextUserConfigApi ==
  \/ init
  \/ setCodecConfig
  \/ getLHDCCodecUserConfig

SpecUserConfigApi == Init /\ [][NextUserConfigApi]_vars

(***************************************************************************)
(* Properties of A2dpCodecs::setCodecUserConfig.                           *)
(***************************************************************************)
UserCall(c) == c.op = "setCodecUserConfig"

\* The computed default priority of descriptor i, written out.
ComputedDefault(i) ==
  IF default_codec_priority_[i] # BTAV_A2DP_CODEC_PRIORITY_DEFAULT
  THEN default_codec_priority_[i]
  ELSE 1000 * (i + 1) + 1

\* C1: a successful setCodecUserConfig whose target is not the current codec
\* and whose priority rose above its old value and to at least the current
\* codec's priority switches codecs: the target becomes current, the previous
\* current codec's priority is its computed default, and restart_input,
\* restart_output and config_updated are all true.
C1_CodecSwitch ==
  [][ LET t == call'.a2dp_codec_config
          cur == current_codec_config_
      IN ( /\ UserCall(call') /\ call'.ret
           /\ cur # nullptr /\ t # cur
           /\ codec_priority_'[t] > codec_priority_[t]
           /\ codec_priority_'[t] >= codec_priority_[cur] )
         => ( /\ current_codec_config_' = t
              /\ codec_priority_'[cur] = ComputedDefault(cur)
              /\ call'.restart_input /\ call'.restart_output
              /\ call'.config_updated ) ]_vars

\* C1 witness: a switch away from a current codec whose priority the user had
\* set, so that the demotion changed it.
C1_Witness ==
  /\ UserCall(call) /\ call.ret
  /\ call.last_codec_config # nullptr
  /\ call.a2dp_codec_config # call.last_codec_config
  /\ current_codec_config_ = call.a2dp_codec_config
  /\ codec_priority_[call.a2dp_codec_config] > call.old_priority
  /\ codec_user_config_[call.last_codec_config].codec_priority = 2500
  /\ codec_priority_[call.last_codec_config] = ComputedDefault(call.last_codec_config)
  /\ call.restart_input /\ call.restart_output /\ call.config_updated

\* C2: a successful setCodecUserConfig made when there was no current codec
\* makes the target current and returns restart_input, restart_output and
\* config_updated all true, whatever the descriptor reported.
C2_FirstSelection ==
  ( UserCall(call) /\ call.ret /\ call.last_codec_config = nullptr )
  => ( /\ current_codec_config_ = call.codec_type
       /\ current_codec_config_ \in indexed_codecs_
       /\ call.restart_input /\ call.restart_output /\ call.config_updated )

\* C2 witness: a first selection for which the descriptor reported no change.
C2_Witness ==
  /\ UserCall(call) /\ call.ret /\ call.last_codec_config = nullptr
  /\ current_codec_config_ = call.codec_type
  /\ ~call.d_restart_input /\ ~call.d_restart_output /\ ~call.d_config_updated
  /\ call.restart_input /\ call.restart_output

\* C3: a successful setCodecUserConfig on the current codec leaves it current;
\* with the priority unchanged the three flags are the descriptor's, with the
\* priority changed config_updated is true, and with the priority lowered
\* restart_output is true as well.
C3_TargetIsCurrent ==
  ( /\ UserCall(call) /\ call.ret
    /\ call.last_codec_config # nullptr
    /\ call.a2dp_codec_config = call.last_codec_config )
  => LET new_priority == codec_priority_[call.a2dp_codec_config] IN
     /\ current_codec_config_ = call.last_codec_config
     /\ (new_priority = call.old_priority =>
           /\ call.restart_input = call.d_restart_input
           /\ call.restart_output = call.d_restart_output
           /\ call.config_updated = call.d_config_updated)
     /\ (new_priority # call.old_priority => call.config_updated)
     /\ (new_priority < call.old_priority => call.restart_output)

\* C3 witness: the current codec's priority is lowered by a call that changes
\* nothing else, and restart_output is forced.
C3_Witness ==
  /\ UserCall(call) /\ call.ret
  /\ call.last_codec_config # nullptr
  /\ call.a2dp_codec_config = call.last_codec_config
  /\ codec_priority_[call.a2dp_codec_config] < call.old_priority
  /\ ~call.d_restart_output /\ call.restart_output /\ call.config_updated

\* C4: a successful setCodecUserConfig on a codec that is not current and
\* whose priority did not rise leaves the current codec, returns restart_input
\* and restart_output false, and config_updated true exactly when the priority
\* changed or the descriptor had set a restart flag.
C4_BackupNotRaised ==
  ( /\ UserCall(call) /\ call.ret
    /\ call.last_codec_config # nullptr
    /\ call.a2dp_codec_config # call.last_codec_config
    /\ codec_priority_[call.a2dp_codec_config] <= call.old_priority )
  => ( /\ current_codec_config_ = call.last_codec_config
       /\ ~call.restart_input /\ ~call.restart_output
       /\ call.config_updated <=>
            ( \/ codec_priority_[call.a2dp_codec_config] # call.old_priority
              \/ call.d_restart_input \/ call.d_restart_output ) )

\* C4 witness: a backup codec is renegotiated at an unchanged priority; the
\* descriptor's restart flags are cleared and config_updated stays true.
C4_Witness ==
  /\ UserCall(call) /\ call.ret
  /\ call.last_codec_config # nullptr
  /\ call.a2dp_codec_config # call.last_codec_config
  /\ codec_priority_[call.a2dp_codec_config] = call.old_priority
  /\ call.d_restart_input /\ call.d_restart_output
  /\ ~call.restart_input /\ ~call.restart_output /\ call.config_updated

\* C5: every successful setCodecUserConfig on a codec that is not current and
\* that leaves the current codec in place returns restart_input and
\* restart_output false.
C5_BackupNeverRestarts ==
  ( /\ UserCall(call) /\ call.ret
    /\ call.last_codec_config # nullptr
    /\ call.a2dp_codec_config # call.last_codec_config
    /\ current_codec_config_ = call.last_codec_config )
  => ( ~call.restart_input /\ ~call.restart_output )

\* C6: a setCodecUserConfig that returns false leaves the current codec,
\* every descriptor's priority and both ordered lists as they were.
C6_FailureAtomic ==
  [][ ( UserCall(call') /\ ~call'.ret )
      => ( /\ current_codec_config_' = current_codec_config_
           /\ codec_priority_' = codec_priority_
           /\ ordered_source_codecs_' = ordered_source_codecs_
           /\ ordered_sink_codecs_' = ordered_sink_codecs_ ) ]_vars

\* C6 witness: the descriptor-level call failed on a target that is not the
\* current codec.
C6_Witness ==
  /\ UserCall(call) /\ ~call.ret
  /\ call.a2dp_codec_config # nullptr
  /\ call.last_codec_config # nullptr
  /\ call.a2dp_codec_config # call.last_codec_config
  /\ current_codec_config_ = call.last_codec_config

\* C7 as stated: the target is the enabled descriptor codec_type names and
\* otherwise the current descriptor; the call fails at this step only when
\* neither resolves.
C7_TargetFallsBackToCurrent ==
  UserCall(call)
  => LET named == IF /\ call.codec_type < BTAV_A2DP_CODEC_INDEX_MAX
                     /\ call.codec_type \in indexed_codecs_
                  THEN call.codec_type
                  ELSE call.last_codec_config
     IN call.a2dp_codec_config = named

\* C7 amended: the target is the enabled descriptor codec_type names when
\* codec_type is a codec index, and the current descriptor only when
\* codec_type is no codec index; the call fails at this step when codec_type
\* is a codec index that is not enabled, or is no codec index while there is
\* no current codec. A successful call stores its user configuration in the
\* target.
C7_TargetResolution ==
  UserCall(call)
  => LET expected == IF call.codec_type < BTAV_A2DP_CODEC_INDEX_MAX
                     THEN IF call.codec_type \in indexed_codecs_
                          THEN call.codec_type ELSE nullptr
                     ELSE call.last_codec_config
     IN /\ call.a2dp_codec_config = expected
        /\ (expected = nullptr => ~call.ret)
        /\ (call.ret => codec_user_config_[expected].codec_type = call.codec_type)

\* C7 witness: a call names a codec index that is not enabled while a current
\* codec exists, and fails.
C7_Witness ==
  /\ UserCall(call) /\ ~call.ret
  /\ call.codec_type < BTAV_A2DP_CODEC_INDEX_MAX
  /\ call.codec_type \notin indexed_codecs_
  /\ call.last_codec_config # nullptr
  /\ call.a2dp_codec_config = nullptr

(***************************************************************************)
(* Properties of A2dpCodecs::setCodecOtaConfig and setCodecAudioConfig.    *)
(***************************************************************************)
OtaCall(c) == c.op = "setCodecOtaConfig"
AudioCall(c) == c.op = "setCodecAudioConfig"

C9_OtaAdoption ==
  [][ OtaCall(call')
      => ( /\ call'.ret =>
                /\ call'.codec_type \in indexed_codecs_
                /\ current_codec_config_' = call'.codec_type
                /\ codec_priority_' = codec_priority_
           /\ ~call'.ret => current_codec_config_' = current_codec_config_ ) ]_vars

\* C9 witness: the negotiation of an OTA configuration for another codec than
\* the current one failed, and the current codec is the previous one.
C9_Witness ==
  /\ OtaCall(call) /\ ~call.ret
  /\ call.a2dp_codec_config # nullptr
  /\ call.last_codec_config # nullptr
  /\ call.a2dp_codec_config # call.last_codec_config
  /\ current_codec_config_ = call.last_codec_config

\* C10: setCodecAudioConfig leaves the current codec, every priority and both
\* ordered lists as they were; without a current codec it returns false and
\* touches no descriptor; on success the current descriptor's user
\* configuration is unchanged.
C10_AudioConfigKeepsSelection ==
  [][ AudioCall(call')
      => ( /\ current_codec_config_' = current_codec_config_
           /\ codec_priority_' = codec_priority_
           /\ ordered_source_codecs_' = ordered_source_codecs_
           /\ ordered_sink_codecs_' = ordered_sink_codecs_
           /\ current_codec_config_ = nullptr =>
                ( ~call'.ret /\ UNCHANGED descvars )
           /\ call'.ret =>
                codec_user_config_'[current_codec_config_] =
                  codec_user_config_[current_codec_config_] ) ]_vars

\* C10 witness: an audio configuration changed the wire configuration of a
\* current codec that has a user configuration.
C10_Witness ==
  /\ AudioCall(call) /\ call.ret /\ call.restart_output
  /\ current_codec_config_ # nullptr
  /\ ~isCodecConfigEmpty(codec_user_config_[current_codec_config_])

(***************************************************************************)
(* Properties of A2dpCodecs::setCodecConfig and setSinkCodecConfig.        *)
(***************************************************************************)
SimpleCall(c) == c.op \in {"setCodecConfig", "setSinkCodecConfig"}

\* The codec index the type tag of a peer buffer stands for, in the source
\* role (setCodecConfig) or the sink role (setSinkCodecConfig).
TagIndex(op, tag) ==
  IF op = "setCodecConfig"
  THEN CASE tag = A2DP_MEDIA_CT_SBC -> BTAV_A2DP_CODEC_INDEX_SOURCE_SBC
         [] tag = A2DP_MEDIA_CT_AAC -> BTAV_A2DP_CODEC_INDEX_SOURCE_AAC
         [] tag = A2DP_MEDIA_CT_NON_A2DP -> BTAV_A2DP_CODEC_INDEX_SOURCE_OPUS
         [] OTHER -> BTAV_A2DP_CODEC_INDEX_MAX
  ELSE CASE tag = A2DP_MEDIA_CT_SBC -> BTAV_A2DP_CODEC_INDEX_SINK_SBC
         [] tag = A2DP_MEDIA_CT_AAC -> BTAV_A2DP_CODEC_INDEX_SINK_AAC
         [] OTHER -> BTAV_A2DP_CODEC_INDEX_MAX

\* C11: setCodecConfig and setSinkCodecConfig change no priority and neither
\* ordered list; a successful call with select_current_codec makes the enabled
\* descriptor of the peer buffer's type tag current; a call without
\* select_current_codec, or one that fails, leaves the current codec; a tag
\* without enabled descriptor makes the call fail.
C11_SimplePathSelection ==
  [][ SimpleCall(call')
      => LET expected == TagIndex(call'.op, call'.peer_codec_type) IN
         /\ codec_priority_' = codec_priority_
         /\ ordered_source_codecs_' = ordered_source_codecs_
         /\ ordered_sink_codecs_' = ordered_sink_codecs_
         /\ (call'.ret /\ call'.select_current_codec) =>
              (expected \in indexed_codecs_ /\ current_codec_config_' = expected)
         /\ (~call'.ret \/ ~call'.select_current_codec) =>
              current_codec_config_' = current_codec_config_
         /\ expected \notin indexed_codecs_ => ~call'.ret ]_vars

\* C11 witness: a negotiation without select_current_codec succeeded on
\* another descriptor than the current one.
C11_Witness ==
  /\ SimpleCall(call) /\ call.ret /\ ~call.select_current_codec
  /\ current_codec_config_ # nullptr
  /\ call.a2dp_codec_config # nullptr
  /\ call.a2dp_codec_config # current_codec_config_

(***************************************************************************)
(* Properties of A2dpCodecConfig::setCodecUserConfig, observed on the      *)
(* registry calls that run it: setCodecUserConfig, setCodecAudioConfig and *)
(* setCodecOtaConfig, on the descriptor they resolved.                     *)
(***************************************************************************)
DescriptorCall(c) ==
  /\ c.op \in {"setCodecUserConfig", "setCodecAudioConfig", "setCodecOtaConfig"}
  /\ c.a2dp_codec_config # nullptr

\* C12: a descriptor-level setCodecUserConfig that returns false leaves the
\* descriptor's user configuration, audio configuration, configuration and
\* wire configuration as they were before the call.
C12_DescriptorFailureAtomic ==
  [][ ( DescriptorCall(call') /\ ~call'.ret )
      => LET i == call'.a2dp_codec_config IN
         /\ codec_user_config_'[i] = codec_user_config_[i]
         /\ codec_audio_config_'[i] = codec_audio_config_[i]
         /\ codec_config_'[i] = codec_config_[i]
         /\ ota_codec_config_'[i] = ota_codec_config_[i] ]_vars

\* C12 witness: a descriptor refused a user configuration whose priority is
\* not the one of the user configuration it holds.
C12_Witness ==
  /\ call.op = "setCodecUserConfig" /\ ~call.ret
  /\ call.a2dp_codec_config # nullptr
  /\ call.user_codec_priority #
       codec_user_config_[call.a2dp_codec_config].codec_priority

\* Whether two configurations differ in one of the named fields.
DiffersIn(a, b, fields) == \E f \in fields : a[f] # b[f]

\* C13 as stated: on success restart_input is true exactly when the new
\* configuration differs from the one before the call in sample_rate,
\* bits_per_sample, channel_mode or one of codec_specific_1..codec_specific_4.
C13_RestartInputAnyCodecSpecific ==
  ( DescriptorCall(call) /\ call.ret )
  => ( call.d_restart_input <=>
         DiffersIn(call.saved_codec_config, codec_config_[call.a2dp_codec_config],
                   {"sample_rate", "bits_per_sample", "channel_mode",
                    "codec_specific_1", "codec_specific_2",
                    "codec_specific_3", "codec_specific_4"}) )

\* C13 amended: on success restart_input is true exactly when the new
\* configuration differs from the one before the call in sample_rate,
\* bits_per_sample, channel_mode or one of codec_specific_1..codec_specific_3;
\* codec_specific_4 is not compared.
C13_RestartInputFormat ==
  ( DescriptorCall(call) /\ call.ret )
  => ( call.d_restart_input <=>
         DiffersIn(call.saved_codec_config, codec_config_[call.a2dp_codec_config],
                   {"sample_rate", "bits_per_sample", "channel_mode",
                    "codec_specific_1", "codec_specific_2",
                    "codec_specific_3"}) )

\* C13 witness: a successful call changed codec_specific_4 of the
\* configuration and nothing else of the format; restart_input is false.
C13_Witness ==
  /\ DescriptorCall(call) /\ call.ret /\ ~call.d_restart_input
  /\ call.saved_codec_config.codec_specific_4 #
       codec_config_[call.a2dp_codec_config].codec_specific_4

\* C14: on success restart_output is true exactly when the descriptor's wire
\* configuration after the call differs from the bytes it held before the
\* call.
C14_RestartOutputOtaChanged ==
  ( DescriptorCall(call) /\ call.ret )
  => ( call.d_restart_output <=>
         call.saved_ota_codec_config # ota_codec_config_[call.a2dp_codec_config] )

\* C14 witness: a renegotiation changed parameter bytes of a wire
\* configuration of the same codec type, and restart_output is true.
C14_Witness ==
  /\ DescriptorCall(call) /\ call.ret /\ call.d_restart_output
  /\ call.saved_ota_codec_config # ZeroCodecInfo
  /\ A2DP_GetCodecType(call.saved_ota_codec_config) =
       A2DP_GetCodecType(ota_codec_config_[call.a2dp_codec_config])
  /\ call.saved_ota_codec_config # ota_codec_config_[call.a2dp_codec_config]

\* C15: a successful descriptor-level setCodecUserConfig returns
\* config_updated = (restart_input or restart_output), a failing one returns
\* the three outputs false; a successful registry setCodecUserConfig or
\* setCodecOtaConfig that returns restart_input or restart_output true returns
\* config_updated true.
C15_ConfigUpdatedIsOr ==
  /\ ( DescriptorCall(call) /\ call.ret )
     => ( call.d_config_updated <=>
            (call.d_restart_input \/ call.d_restart_output) )
  /\ ( DescriptorCall(call) /\ ~call.ret )
     => ( ~call.d_restart_input /\ ~call.d_restart_output
          /\ ~call.d_config_updated )
  /\ ( /\ call.op \in {"setCodecUserConfig", "setCodecOtaConfig"} /\ call.ret
       /\ (call.restart_input \/ call.restart_output) )
     => call.config_updated

\* C15 witness: the registry forced a restart flag on a call for which the
\* descriptor reported no update.
C15_Witness ==
  /\ call.op = "setCodecUserConfig" /\ call.ret
  /\ ~call.d_config_updated
  /\ (call.restart_input \/ call.restart_output)
  /\ call.config_updated

SortedByPriority(list) ==
  \A k \in 1 .. (Len(list) - 1) :
    \/ codec_priority_[list[k]] > codec_priority_[list[k + 1]]
    \/ /\ codec_priority_[list[k]] = codec_priority_[list[k + 1]]
       /\ list[k] > list[k + 1]

\* C17: after init and after every registry operation, ordered_source and
\* ordered_sink are sorted by the priority comparator.
C17_OrderedListsSorted ==
  initialized => ( /\ SortedByPriority(ordered_source_codecs_)
                   /\ SortedByPriority(ordered_sink_codecs_) )

\* C18: setCodecPriority(p) makes the effective priority p when p is not
\* Default; for Default it makes it the construction-time priority when that
\* is not Default and 1000 * (codec_index + 1) + 1 otherwise. Descriptors
\* constructed with the Default priority get distinct nonzero priorities that
\* increase with the codec index.
C18_EffectivePriority ==
  /\ ( UserCall(call) /\ call.ret )
     => LET i == call.a2dp_codec_config
            p == call.user_codec_priority
        IN /\ codec_priority_[i] =
                IF p # BTAV_A2DP_CODEC_PRIORITY_DEFAULT THEN p
                ELSE IF default_codec_priority_[i] # BTAV_A2DP_CODEC_PRIORITY_DEFAULT
                     THEN default_codec_priority_[i]
                     ELSE 1000 * (i + 1) + 1
           /\ codec_config_[i].codec_priority = codec_priority_[i]
  /\ call.op = "init"
     => \A i, j \in DOMAIN default_codec_priority_ :
          ( /\ default_codec_priority_[i] = BTAV_A2DP_CODEC_PRIORITY_DEFAULT
            /\ default_codec_priority_[j] = BTAV_A2DP_CODEC_PRIORITY_DEFAULT
            /\ i < j )
          => ( /\ codec_priority_[i] = 1000 * (i + 1) + 1
               /\ 0 < codec_priority_[i]
               /\ codec_priority_[i] < codec_priority_[j] )

\* C18 witness: a user configuration with the Default priority put a
\* descriptor constructed with priority 3500 back to 3500 from another value.
C18_Witness ==
  /\ UserCall(call) /\ call.ret
  /\ call.user_codec_priority = BTAV_A2DP_CODEC_PRIORITY_DEFAULT
  /\ default_codec_priority_[call.a2dp_codec_config] = 3500
  /\ call.old_priority # 3500
  /\ codec_priority_[call.a2dp_codec_config] = 3500

\* Whether a user configuration sets anything: a priority, a sample rate, a
\* sample size, a channel mode or a codec-specific value.
SetsSomething(c) ==
  \/ c.codec_priority # 0 \/ c.sample_rate # 0 \/ c.bits_per_sample # 0
  \/ c.channel_mode # 0
  \/ c.codec_specific_1 # 0 \/ c.codec_specific_2 # 0
  \/ c.codec_specific_3 # 0 \/ c.codec_specific_4 # 0

Occurrences(list, i) == Cardinality({ k \in DOMAIN list : list[k] = i })

\* C20: the descriptors init() created are split between indexed_codecs_
\* and disabled_codecs_; an indexed descriptor is once in the ordered list
\* of its role and not in the other, a disabled one is in neither list; when
\* init() returns, the disabled descriptors are those whose priority is
\* Disabled, which are those the priority table disables and the OPUS source
\* when its flag is off, and init() returns true exactly when both ordered
\* lists are non-empty.
C20_InitPartition ==
  initialized =>
    LET created == DOMAIN codec_priority_ IN
    /\ indexed_codecs_ \cup disabled_codecs_ = created
    /\ indexed_codecs_ \cap disabled_codecs_ = {}
    /\ \A i \in indexed_codecs_ :
         IF i < BTAV_A2DP_CODEC_INDEX_SOURCE_MAX
         THEN /\ Occurrences(ordered_source_codecs_, i) = 1
              /\ Occurrences(ordered_sink_codecs_, i) = 0
         ELSE /\ Occurrences(ordered_source_codecs_, i) = 0
              /\ Occurrences(ordered_sink_codecs_, i) = 1
    /\ \A i \in CodecIndices \ indexed_codecs_ :
         /\ Occurrences(ordered_source_codecs_, i) = 0
         /\ Occurrences(ordered_sink_codecs_, i) = 0
    /\ call.op = "init" =>
         /\ \A i \in created :
              /\ i \in disabled_codecs_ <=>
                   codec_priority_[i] = BTAV_A2DP_CODEC_PRIORITY_DISABLED
              /\ i \in disabled_codecs_ <=>
                   \/ /\ i \in DOMAIN codec_priorities_
                      /\ codec_priorities_[i] = BTAV_A2DP_CODEC_PRIORITY_DISABLED
                   \/ /\ i = BTAV_A2DP_CODEC_INDEX_SOURCE_OPUS
                      /\ ~call.opus_enabled
         /\ call.ret <=> ( /\ ordered_source_codecs_ # << >>
                           /\ ordered_sink_codecs_ # << >> )

\* C20 witness: init() returned true with the SBC source and the SBC sink as
\* the only descriptors, one entry in each ordered list.
C20_Witness ==
  /\ call.op = "init" /\ call.ret
  /\ indexed_codecs_ = { BTAV_A2DP_CODEC_INDEX_SOURCE_SBC,
                         BTAV_A2DP_CODEC_INDEX_SINK_SBC }
  /\ ordered_source_codecs_ = << BTAV_A2DP_CODEC_INDEX_SOURCE_SBC >>
  /\ ordered_sink_codecs_ = << BTAV_A2DP_CODEC_INDEX_SINK_SBC >>

\* init() returned false with descriptors disabled by the priority table
\* and by the OPUS flag and an empty sink list.
C20_WitnessFalse ==
  /\ call.op = "init" /\ ~call.ret
  /\ disabled_codecs_ = { BTAV_A2DP_CODEC_INDEX_SINK_AAC }
  /\ ordered_sink_codecs_ = << >>
  /\ Len(ordered_source_codecs_) = 2

(***************************************************************************)
(* Properties of the registry called from two threads.                     *)
(***************************************************************************)
\* Thread t is inside a registry method: past its lock_guard, not returned.
InRegistryCall(t) ==
  /\ thread[t].op \in RegistryOps
  /\ thread[t].pc \in {"entered", "nested", "body", "return"}

\* The step is the one in which thread t's registry call does its work.
IsBodyStep(t) == thread[t].pc = "body" /\ thread'[t].pc = "return"

\* The call of thread t made in one step, alone, from the present state.
AloneCall(t) ==
  LET c == thread[t] IN
  CASE c.op = "setCodecUserConfig" ->
         setCodecUserConfigWith(c.codec_user_config, c.p_peer_codec_info,
                                FALSE, FALSE)
    [] c.op = "setCodecOtaConfig" -> setCodecOtaConfigWith(c.p_peer_codec_info)
    [] c.op = "setCodecConfig" ->
         SimpleSetCodecConfig("setCodecConfig",
                              findSourceCodecConfig(c.p_peer_codec_info),
                              c.p_peer_codec_info, TRUE, TRUE)

\* C21: calls of setCodecUserConfig and setCodecOtaConfig made from two
\* threads are serialized. No two threads are inside a registry method at
\* once; the step in which a call does its work changes the registry and
\* the descriptors, and returns the results, exactly as that call made alone
\* from the state of that moment does; and once the threads run no other
\* step changes the registry or the descriptors. The states and the results
\* are therefore those of the calls made one after the other, in the order
\* in which they took the lock.
C21_Serialized ==
  /\ [](\A t1, t2 \in Threads :
          t1 # t2 => ~(InRegistryCall(t1) /\ InRegistryCall(t2)))
  /\ [][ /\ \A t \in Threads :
              IsBodyStep(t) =>
                /\ AloneCall(t)
                /\ thread'[t].ret = call'.ret
                /\ thread'[t].restart_input = call'.restart_input
                /\ thread'[t].restart_output = call'.restart_output
                /\ thread'[t].config_updated = call'.config_updated
         /\ ( /\ ~AllIdle
              /\ \A t \in Threads : ~IsBodyStep(t) )
            => UNCHANGED << regvars, descvars >> ]_vars

\* C21 witness: one thread is doing the work of a setCodecUserConfig or
\* setCodecOtaConfig, a codec being current, while the other has called one
\* of the two and waits for the lock.
C21_Witness ==
  \E t1, t2 \in Threads :
    /\ t1 # t2
    /\ current_codec_config_ # nullptr
    /\ thread[t1].op \in {"setCodecUserConfig", "setCodecOtaConfig"}
    /\ thread[t1].pc = "body"
    /\ thread[t2].op \in {"setCodecUserConfig", "setCodecOtaConfig"}
    /\ thread[t2].pc = "call"
    /\ ~lock_available(codec_mutex_[MutexOf(A2dpCodecs)], t2)

\* Thread t holds the lock of some object.
HoldsLock(t) == \E o \in Objects : codec_mutex_[o].owner = t

InAccessor(t) ==
  /\ thread[t].op = "getCodecConfig"
  /\ thread[t].pc \in {"reading", "return"}

\* The snapshots of descriptor i that its read accessors return.
Snapshots(i) ==
  << codec_config_[i], codec_user_config_[i], codec_audio_config_[i],
     codec_local_capability_[i], codec_selectable_capability_[i] >>

EncodedValid ==
  \A i \in DOMAIN ota_codec_config_ : A2DP_IsSourceCodecValid(ota_codec_config_[i])

AllZero(codec_info) == \A k \in DOMAIN codec_info : codec_info[k] = 0

\* C24: when getCodecSpecificConfig has run on a descriptor whose
\* ota_codec_config_ is not a structurally valid source configuration, it
\* has returned false and every byte of the offload codec_info is zero,
\* whatever the structure held when it was handed in.
C24_InvalidConfigZeroes ==
  (p_a2dp_offload.called /\ ~EncodedValid)
    => /\ p_a2dp_offload.ret = FALSE
       /\ AllZero(p_a2dp_offload.codec_info)

\* An invalid configuration was encoded into a structure that held non-zero
\* bytes.
C24_Witness ==
  /\ p_a2dp_offload.called
  /\ ~EncodedValid
  /\ ~AllZero(p_a2dp_offload.handed)
  /\ p_a2dp_offload.ret = FALSE
  /\ AllZero(p_a2dp_offload.codec_info)

\* C25: when getCodecSpecificConfig has run on a descriptor whose
\* ota_codec_config_ is a valid SBC configuration, it has returned true and
\* the offload bytes are codec_info[0] = ota[4], [1] = ota[5], [2] = ota[6],
\* [3] = ota[3], every other byte zero.
C25_SbcOffloadBytes ==
  \A i \in DOMAIN ota_codec_config_ :
    (/\ p_a2dp_offload.called
     /\ A2DP_IsSourceCodecValid(ota_codec_config_[i])
     /\ A2DP_GetCodecType(ota_codec_config_[i]) = A2DP_MEDIA_CT_SBC)
      => /\ p_a2dp_offload.ret = TRUE
         /\ p_a2dp_offload.codec_info[0] = At(ota_codec_config_[i], 4)
         /\ p_a2dp_offload.codec_info[1] = At(ota_codec_config_[i], 5)
         /\ p_a2dp_offload.codec_info[2] = At(ota_codec_config_[i], 6)
         /\ p_a2dp_offload.codec_info[3] = At(ota_codec_config_[i], 3)
         /\ \A k \in 4 .. (OffloadSize - 1) : p_a2dp_offload.codec_info[k] = 0

\* The SBC configuration with 16 blocks, 8 subbands, bit pool 2..53, 44100 Hz
\* stereo was encoded into a structure that held non-zero bytes.
C25_Witness ==
  /\ p_a2dp_offload.called
  /\ p_a2dp_offload.ret = TRUE
  /\ ~AllZero(p_a2dp_offload.handed)
  /\ \E i \in DOMAIN ota_codec_config_ : ota_codec_config_[i] = SbcInfoStereo44100
  /\ p_a2dp_offload.codec_info[0] = 21
  /\ p_a2dp_offload.codec_info[1] = 2
  /\ p_a2dp_offload.codec_info[2] = 53
  /\ p_a2dp_offload.codec_info[3] = 34

\* The buffer is the information element of the LHDC codec codec_id.
IsLhdc(p_codec_info, codec_id) ==
  /\ A2DP_GetCodecType(p_codec_info) = A2DP_MEDIA_CT_NON_A2DP
  /\ A2DP_VendorCodecGetVendorId(p_codec_info) = A2DP_LHDC_VENDOR_ID
  /\ A2DP_VendorCodecGetCodecId(p_codec_info) = codec_id

\* The fields of an LHDC configuration the offload structure cannot carry.
Unrepresentable(p_codec_info) ==
  LET version == BitAnd(At(p_codec_info, 10), A2DP_LHDC_VERSION_MASK)
      split == BitAnd(At(p_codec_info, 11), A2DP_LHDC_CH_SPLIT_MSK)
  IN \/ /\ IsLhdc(p_codec_info, A2DP_LHDCV3_CODEC_ID)
        /\ version \notin {A2DP_LHDC_VER3, A2DP_LHDC_VER6}
     \/ /\ IsLhdc(p_codec_info, A2DP_LHDCV2_CODEC_ID)
        /\ version > A2DP_LHDC_VER2
     \/ /\ IsLhdc(p_codec_info, A2DP_LHDCV5_CODEC_ID)
        /\ BitAnd(At(p_codec_info, 11), A2DP_LHDCV5_VERSION_MASK) # A2DP_LHDCV5_VER_1
     \/ /\ \/ IsLhdc(p_codec_info, A2DP_LHDCV2_CODEC_ID)
           \/ IsLhdc(p_codec_info, A2DP_LHDCV3_CODEC_ID)
        /\ split \notin {A2DP_LHDC_CH_SPLIT_NONE, A2DP_LHDC_CH_SPLIT_TWS}
     \/ /\ IsLhdc(p_codec_info, A2DP_LHDCV5_CODEC_ID)
        /\ BitAnd(At(p_codec_info, 11), A2DP_LHDCV5_FRAME_LEN_MASK) = 0

\* C26: when getCodecSpecificConfig has run on a descriptor whose
\* ota_codec_config_ is a valid LHDC V2, V3 or V5 configuration, it has
\* returned false exactly if the version field is unsupported (V3: neither
\* VER3 nor VER6; V2: above VER2; V5: not VER_1), the channel split of V2 or
\* V3 is neither NONE nor TWS, or the frame length field of V5 is zero.
C26_LhdcFailures ==
  \A i \in DOMAIN ota_codec_config_ :
    (/\ p_a2dp_offload.called
     /\ A2DP_IsSourceCodecValid(ota_codec_config_[i])
     /\ \E codec_id \in {A2DP_LHDCV2_CODEC_ID, A2DP_LHDCV3_CODEC_ID,
                          A2DP_LHDCV5_CODEC_ID} :
          IsLhdc(ota_codec_config_[i], codec_id))
      => (p_a2dp_offload.ret = FALSE <=> Unrepresentable(ota_codec_config_[i]))

\* An LHDC V3 configuration of a supported version with an unsupported
\* channel split was encoded: the call failed after it had written the
\* version byte.
C26_Witness ==
  /\ p_a2dp_offload.called
  /\ p_a2dp_offload.ret = FALSE
  /\ p_a2dp_offload.codec_info[A2DP_OFFLOAD_LHDC_CFG_VER] # 0
  /\ \E i \in DOMAIN ota_codec_config_ :
       /\ A2DP_IsSourceCodecValid(ota_codec_config_[i])
       /\ IsLhdc(ota_codec_config_[i], A2DP_LHDCV3_CODEC_ID)
       /\ BitAnd(At(ota_codec_config_[i], 10), A2DP_LHDC_VERSION_MASK)
            = A2DP_LHDC_VER6
       /\ BitAnd(At(ota_codec_config_[i], 11), A2DP_LHDC_CH_SPLIT_MSK)
            \notin {A2DP_LHDC_CH_SPLIT_NONE, A2DP_LHDC_CH_SPLIT_TWS}

\* C27: the step in which getCodecSpecificConfig runs, whatever it returns,
\* leaves every descriptor's codec_config_, capabilities, codec_user_config_,
\* codec_audio_config_, ota_codec_config_ and priorities unchanged, and the
\* registry's current codec and ordered lists unchanged.
C27_EncodeKeepsNegotiationState ==
  [][ (~p_a2dp_offload.called /\ p_a2dp_offload'.called)
        => UNCHANGED << regvars, descvars, capvars >> ]_vars

\* A valid negotiated configuration of the current codec failed to encode,
\* and the descriptor still holds it.
C27_Witness ==
  /\ p_a2dp_offload.called
  /\ p_a2dp_offload.ret = FALSE
  /\ current_codec_config_ # nullptr
  /\ current_codec_config_ \in DOMAIN ota_codec_config_
  /\ A2DP_IsSourceCodecValid(ota_codec_config_[current_codec_config_])
  /\ Unrepresentable(ota_codec_config_[current_codec_config_])

(***************************************************************************)
(* The dispatch functions.                                                 *)
(***************************************************************************)
\* C28: for a buffer whose type is none of SBC, AAC, vendor, the six
\* validity predicates have returned false; A2DP_CodecTypeEquals and
\* A2DP_CodecEquals have returned false for two buffers whose types differ
\* or whose common type is none of the three, even for identical buffers.
C28_UnknownTagInvalid ==
  /\ (dispatch.op = "validity" /\ ~IsDispatched(codec_info_buffers[1]))
       => /\ ~dispatch.IsSourceCodecValid
          /\ ~dispatch.IsSinkCodecValid
          /\ ~dispatch.IsPeerSourceCodecValid
          /\ ~dispatch.IsPeerSinkCodecValid
          /\ ~dispatch.IsSinkCodecSupported
          /\ ~dispatch.IsPeerSourceCodecSupported
  /\ (/\ dispatch.op = "equals"
      /\ \/ A2DP_GetCodecType(codec_info_buffers[1])
              # A2DP_GetCodecType(codec_info_buffers[2])
         \/ ~IsDispatched(codec_info_buffers[1]))
       => /\ ~dispatch.CodecTypeEquals
          /\ ~dispatch.CodecEquals

\* Two identical buffers of an unknown type were compared and found unequal.
C28_Witness ==
  /\ dispatch.op = "equals"
  /\ codec_info_buffers[1] = codec_info_buffers[2]
  /\ ~IsDispatched(codec_info_buffers[1])
  /\ ~dispatch.CodecTypeEquals
  /\ ~dispatch.CodecEquals

\* The ten accessors returned their failure value for the first buffer.
TenSentinels ==
  /\ dispatch.GetTrackSampleRate = -1
  /\ dispatch.GetTrackBitsPerSample = -1
  /\ dispatch.GetTrackChannelCount = -1
  /\ dispatch.GetSinkTrackChannelType = -1
  /\ dispatch.getTrackBitRate = -1
  /\ dispatch.GetEncoderInterface = nullptr
  /\ dispatch.GetDecoderInterface = nullptr
  /\ dispatch.CodecName = "UNKNOWN CODEC"
  /\ dispatch.SourceCodecIndex = BTAV_A2DP_CODEC_INDEX_MAX
  /\ dispatch.SinkCodecIndex = BTAV_A2DP_CODEC_INDEX_MAX

\* C29 as stated: for a buffer whose type is none of SBC, AAC, vendor, every
\* accessor has returned a failure value of the documented set, also
\* A2DP_GetEecoderEffectiveFrameSize (-1) and A2DP_UsesRtpHeader (false).
C29_AllAccessorsSentinel ==
  (dispatch.op = "accessors" /\ ~IsDispatched(codec_info_buffers[1]))
    => /\ TenSentinels
       /\ dispatch.GetEecoderEffectiveFrameSize = -1
       /\ dispatch.UsesRtpHeader = FALSE

\* C29: for a buffer whose type is none of SBC, AAC, vendor, the track
\* accessors and getTrackBitRate have returned -1, the interface accessors
\* null, A2DP_CodecName "UNKNOWN CODEC", the index functions the MAX index;
\* A2DP_GetEecoderEffectiveFrameSize has returned 0 and A2DP_UsesRtpHeader
\* true, with and without content protection.
C29_AccessorSentinels ==
  (dispatch.op = "accessors" /\ ~IsDispatched(codec_info_buffers[1]))
    => /\ TenSentinels
       /\ dispatch.GetEecoderEffectiveFrameSize = 0
       /\ dispatch.UsesRtpHeader = TRUE

\* The accessors were applied to a buffer of an unknown type without content
\* protection: frame size 0, RTP header used, sample rate -1.
C29_Witness ==
  /\ dispatch.op = "accessors"
  /\ ~dispatch.content_protection_enabled
  /\ A2DP_GetCodecType(codec_info_buffers[1]) = UnknownCodecTag
  /\ dispatch.GetEecoderEffectiveFrameSize = 0
  /\ dispatch.UsesRtpHeader = TRUE
  /\ dispatch.GetTrackSampleRate = -1

(***************************************************************************)
(* The report of configuration and capabilities.                           *)
(***************************************************************************)
\* The positions of ordered_source_codecs_ whose selectable capability has a
\* sample rate, a bit depth and a channel mode.
UsablePositions ==
  { k \in 1 .. Len(ordered_source_codecs_) :
      LET c == codec_selectable_capability_[ordered_source_codecs_[k]]
      IN /\ c.sample_rate # BTAV_A2DP_CODEC_SAMPLE_RATE_NONE
         /\ c.bits_per_sample # BTAV_A2DP_CODEC_BITS_PER_SAMPLE_NONE
         /\ c.channel_mode # BTAV_A2DP_CODEC_CHANNEL_MODE_NONE }

\* The j-th usable position, counted from the front of the list.
UsablePosition(j) ==
  CHOOSE k \in UsablePositions :
    Cardinality({ m \in UsablePositions : m <= k }) = j

\* C30: getCodecConfigAndCapabilities has returned true with one local
\* capability per codec of ordered_source_codecs_, in that order; the
\* selectable capabilities of exactly those codecs of the list whose sample
\* rate, bit depth and channel mode are all set, in the same relative order;
\* and the current codec's configuration, or an all-zero record when there
\* is no current codec.  The step changes no registry or descriptor state.
C30_ConfigAndCapabilities ==
  /\ [](call.op = "getCodecConfigAndCapabilities"
          => /\ call.ret = TRUE
             /\ Len(call.p_codecs_local_capabilities) = Len(ordered_source_codecs_)
             /\ \A k \in 1 .. Len(ordered_source_codecs_) :
                  call.p_codecs_local_capabilities[k]
                    = codec_local_capability_[ordered_source_codecs_[k]]
             /\ Len(call.p_codecs_selectable_capabilities)
                  = Cardinality(UsablePositions)
             /\ \A j \in 1 .. Cardinality(UsablePositions) :
                  call.p_codecs_selectable_capabilities[j]
                    = codec_selectable_capability_[
                        ordered_source_codecs_[UsablePosition(j)]]
             /\ call.p_codec_config
                  = IF current_codec_config_ = nullptr
                    THEN [ codec_type |-> 0, codec_priority |-> 0,
                           sample_rate |-> 0, bits_per_sample |-> 0,
                           channel_mode |-> 0, codec_specific_1 |-> 0,
                           codec_specific_2 |-> 0, codec_specific_3 |-> 0,
                           codec_specific_4 |-> 0 ]
                    ELSE codec_config_[current_codec_config_])
  /\ [][ call'.op = "getCodecConfigAndCapabilities"
           => UNCHANGED << regvars, descvars, capvars >> ]_vars

\* With a current codec and at least two source codecs, of which one has a
\* usable selectable capability, the report left the other ones out.
C30_Witness ==
  /\ call.op = "getCodecConfigAndCapabilities"
  /\ current_codec_config_ # nullptr
  /\ Len(call.p_codecs_local_capabilities) >= 2
  /\ Len(call.p_codecs_selectable_capabilities) = 1
  /\ call.p_codec_config = codec_config_[current_codec_config_]

(***************************************************************************)
(* Properties of setPeerSinkCodecCapabilities and                          *)
(* setPeerSourceCodecCapabilities.                                         *)
(***************************************************************************)
\* Whether the step is a call of one of the two operations.
PeerSinkCall == call'.op = "setPeerSinkCodecCapabilities" /\ nops' # nops
PeerSourceCall == call'.op = "setPeerSourceCodecCapabilities" /\ nops' # nops

\* Whether the registry rejects the buffer before it reaches a descriptor.
PeerSinkRejected(p_peer_codec_capabilities) ==
  \/ ~A2DP_IsPeerSinkCodecValid(p_peer_codec_capabilities)
  \/ A2DP_SourceCodecIndex(p_peer_codec_capabilities) \notin indexed_codecs_

PeerSourceRejected(p_peer_codec_capabilities) ==
  \/ ~A2DP_IsPeerSourceCodecValid(p_peer_codec_capabilities)
  \/ A2DP_SinkCodecIndex(p_peer_codec_capabilities) \notin indexed_codecs_

\* C31: setPeerSinkCodecCapabilities (setPeerSourceCodecCapabilities) returns
\* false and changes no descriptor or registry state when the buffer fails
\* the peer-sink (peer-source) validity predicate, as every buffer with an
\* unknown type tag does, or when no enabled source (sink) descriptor matches
\* the buffer's type; in no case does it change current_codec_config_, a
\* priority or the ordered lists.
C31_PeerCapabilitiesRejection ==
  /\ \A b \in PeerCapabilities :
       A2DP_GetCodecType(b) = UnknownCodecTag =>
         ~A2DP_IsPeerSinkCodecValid(b) /\ ~A2DP_IsPeerSourceCodecValid(b)
  /\ [][ /\ PeerSinkCall \/ PeerSourceCall =>
              UNCHANGED << regvars, codec_priority_, default_codec_priority_ >>
         /\ PeerSinkCall /\ PeerSinkRejected(call'.p_peer_codec_info) =>
              call'.ret = FALSE /\ UNCHANGED << regvars, descvars, capvars >>
         /\ PeerSourceCall /\ PeerSourceRejected(call'.p_peer_codec_info) =>
              call'.ret = FALSE /\ UNCHANGED << regvars, descvars, capvars >>
       ]_vars

\* A valid AAC capability of a peer source is handed in while the AAC sink
\* descriptor is disabled, and is rejected; the AAC source descriptor exists.
C31_Witness ==
  /\ call.op = "setPeerSourceCodecCapabilities"
  /\ A2DP_GetCodecType(call.p_peer_codec_info) = A2DP_MEDIA_CT_AAC
  /\ A2DP_IsPeerSourceCodecValid(call.p_peer_codec_info)
  /\ BTAV_A2DP_CODEC_INDEX_SINK_AAC \in disabled_codecs_
  /\ BTAV_A2DP_CODEC_INDEX_SOURCE_AAC \in indexed_codecs_
  /\ call.ret = FALSE

(***************************************************************************)
(* Properties of current_codec_config_.                                    *)
(***************************************************************************)
\* The operations that assign current_codec_config_.
SelectingOperations ==
  { "setCodecConfig", "setSinkCodecConfig", "setCodecUserConfig",
    "setCodecOtaConfig" }

\* C32: in every reachable state current_codec_config_ is nullptr or a
\* descriptor of indexed_codecs_, never one of disabled_codecs_ or one the
\* registry does not hold; it is nullptr at construction and stays nullptr
\* until a selecting operation succeeds.
C32_CurrentIsIndexed ==
  /\ current_codec_config_ = nullptr
  /\ [](\/ current_codec_config_ = nullptr
        \/ /\ current_codec_config_ \in indexed_codecs_
           /\ current_codec_config_ \notin disabled_codecs_
           /\ current_codec_config_ \in DOMAIN codec_config_)
  /\ [][ current_codec_config_ = nullptr /\ current_codec_config_' # nullptr =>
           /\ call'.op \in SelectingOperations
           /\ call'.ret = TRUE
           /\ current_codec_config_' = call'.a2dp_codec_config ]_vars

\* A registry with a disabled descriptor has selected a current descriptor.
C32_Witness ==
  /\ current_codec_config_ # nullptr
  /\ disabled_codecs_ # {}
  /\ call.op = "setCodecOtaConfig"
  /\ call.ret = TRUE
  /\ call.last_codec_config = nullptr

(***************************************************************************)
(* Properties of getLHDCCodecUserConfig.                                   *)
(***************************************************************************)
\* Thread t reads current_codec_config_ in this step of
\* getLHDCCodecUserConfig.
LhdcReadsCurrent(t) ==
  /\ thread[t].op = "getLHDCCodecUserConfig"
  /\ thread[t].pc = "unlocked"
  /\ thread'[t].current_read

\* C33: every registry operation that reads or writes current_codec_config_
\* holds the registry's lock while it does: getLHDCCodecUserConfig reads it
\* only as the owner of codec_mutex_, and never while another thread is
\* between the adoption of a descriptor by setCodecOtaConfig and the end of
\* that call.
C33_CurrentReadUnderLock ==
  [][ \A t \in Threads :
        LhdcReadsCurrent(t) =>
          /\ codec_mutex_[MutexOf(A2dpCodecs)].owner = t
          /\ \A u \in Threads \ {t} : thread[u].pc # "adopted" ]_vars

(***************************************************************************)
(* Properties of the LHDC offload encoders.                                *)
(***************************************************************************)

\* The 16-bit value held by two offload bytes.
Offload16(lo, hi) ==
  p_a2dp_offload.codec_info[lo] + 256 * p_a2dp_offload.codec_info[hi]

\* Descriptor i holds an LHDC configuration of the given codec id and
\* getCodecSpecificConfig has encoded it successfully.
LhdcEncoded(i, codec_id) ==
  /\ p_a2dp_offload.called
  /\ p_a2dp_offload.ret
  /\ IsLhdc(ota_codec_config_[i], codec_id)

\* C34: in a successful offload encode of an LHDC configuration, the quality
\* index HIGH1 (low four bits of codec_specific_1) gives the bit rate HIGH
\* in V2 and V3, the same as the index HIGH gives, and the distinct tier
\* HIGH1 in V5; an index that names no tier gives ABR in all three; and a
\* maximum bit rate field that is none of 400K, 500K and 900K gives HIGH1
\* in V5, while in V2 and V3 every field other than 400K and 500K gives HIGH.
C34_BitrateTiers ==
  \A i \in DOMAIN ota_codec_config_ :
    \A codec_id \in {A2DP_LHDCV2_CODEC_ID, A2DP_LHDCV3_CODEC_ID,
                      A2DP_LHDCV5_CODEC_ID} :
      LhdcEncoded(i, codec_id) =>
        LET quality == BitAnd(codec_config_[i].codec_specific_1, 15)
            bitrate == Offload16(A2DP_OFFLOAD_LHDC_CFG_BITRATE_L,
                                 A2DP_OFFLOAD_LHDC_CFG_BITRATE_H)
            maxbitrate == Offload16(A2DP_OFFLOAD_LHDC_CFG_MAXBITRATE_L,
                                    A2DP_OFFLOAD_LHDC_CFG_MAXBITRATE_H)
            v5 == codec_id = A2DP_LHDCV5_CODEC_ID
            max == BitAnd(At(ota_codec_config_[i], 10),
                          IF v5 THEN A2DP_LHDCV5_MAX_BIT_RATE_MASK
                          ELSE A2DP_LHDC_MAX_BIT_RATE_MASK)
        IN /\ quality = A2DP_LHDC_QUALITY_HIGH
                => bitrate = A2DP_OFFLOAD_LHDC_QUALITY_HIGH
           /\ quality = A2DP_LHDC_QUALITY_HIGH1
                => bitrate = IF v5 THEN A2DP_OFFLOAD_LHDC_QUALITY_HIGH1
                             ELSE A2DP_OFFLOAD_LHDC_QUALITY_HIGH
           /\ quality \notin A2DP_LHDC_QUALITY_LOW0 .. A2DP_LHDC_QUALITY_ABR
                => bitrate = A2DP_OFFLOAD_LHDC_QUALITY_ABR
           /\ (v5 /\ max \notin {A2DP_LHDCV5_MAX_BIT_RATE_400K,
                                 A2DP_LHDCV5_MAX_BIT_RATE_500K,
                                 A2DP_LHDCV5_MAX_BIT_RATE_900K})
                => maxbitrate = A2DP_OFFLOAD_LHDC_QUALITY_HIGH1
           /\ (~v5 /\ max \notin {A2DP_LHDC_MAX_BIT_RATE_400K,
                                  A2DP_LHDC_MAX_BIT_RATE_500K})
                => maxbitrate = A2DP_OFFLOAD_LHDC_QUALITY_HIGH

\* An LHDC V3 configuration whose maximum bit rate field is none of 400K,
\* 500K and 900K was encoded with the quality index HIGH1: both the bit rate
\* and the maximum bit rate are HIGH.
C34_Witness ==
  \E i \in DOMAIN ota_codec_config_ :
    /\ LhdcEncoded(i, A2DP_LHDCV3_CODEC_ID)
    /\ BitAnd(codec_config_[i].codec_specific_1, 15) = A2DP_LHDC_QUALITY_HIGH1
    /\ BitAnd(At(ota_codec_config_[i], 10), A2DP_LHDC_MAX_BIT_RATE_MASK)
         \notin {A2DP_LHDC_MAX_BIT_RATE_400K, A2DP_LHDC_MAX_BIT_RATE_500K,
                  A2DP_LHDC_MAX_BIT_RATE_900K}
    /\ Offload16(A2DP_OFFLOAD_LHDC_CFG_BITRATE_L,
                 A2DP_OFFLOAD_LHDC_CFG_BITRATE_H)
         = A2DP_OFFLOAD_LHDC_QUALITY_HIGH
    /\ Offload16(A2DP_OFFLOAD_LHDC_CFG_MAXBITRATE_L,
                 A2DP_OFFLOAD_LHDC_CFG_MAXBITRATE_H)
         = A2DP_OFFLOAD_LHDC_QUALITY_HIGH

\* The minimum bit rate field of LHDC V3: LOW4 with the MIN_BR feature,
\* LOW1 without it.
LhdcV3MinBitRate(p_codec_info) ==
  IF BitAnd(At(p_codec_info, 11), A2DP_LHDC_FEATURE_MIN_BR)
       = A2DP_LHDC_FEATURE_MIN_BR
  THEN A2DP_OFFLOAD_LHDC_QUALITY_LOW4
  ELSE A2DP_OFFLOAD_LHDC_QUALITY_LOW1

\* C35 as stated: after a successful offload encode, the minimum bit rate,
\* frame duration and codec-specific-1 fields are zero for LHDC V2, and the
\* frame duration and minimum bit rate fields are zero for LHDC V3; only
\* LHDC V5 writes the minimum bit rate and the frame duration.
C35_AbsentFieldsZero ==
  \A i \in DOMAIN ota_codec_config_ :
    LET minbitrate == Offload16(A2DP_OFFLOAD_LHDC_CFG_MINBITRATE_L,
                                A2DP_OFFLOAD_LHDC_CFG_MINBITRATE_H)
        framedur == p_a2dp_offload.codec_info[A2DP_OFFLOAD_LHDC_CFG_FRAMEDUR]
        spec1 == p_a2dp_offload.codec_info[A2DP_OFFLOAD_LHDC_CFG_SPEC1]
    IN /\ LhdcEncoded(i, A2DP_LHDCV2_CODEC_ID)
            => (minbitrate = 0 /\ framedur = 0 /\ spec1 = 0)
       /\ LhdcEncoded(i, A2DP_LHDCV3_CODEC_ID)
            => (framedur = 0 /\ minbitrate = 0)
       /\ LhdcEncoded(i, A2DP_LHDCV5_CODEC_ID)
            => (framedur # 0 /\ minbitrate # 0)

\* C35, amended: after a successful offload encode, the minimum bit rate,
\* frame duration and codec-specific-1 fields are zero for LHDC V2; for
\* LHDC V3 the frame duration field is zero and the minimum bit rate field
\* holds LOW4 or LOW1; LHDC V5 writes a minimum bit rate tier and the frame
\* duration of 5 ms, and is the only revision that writes the frame duration.
C35_AbsentFieldsZeroButV3MinBitRate ==
  \A i \in DOMAIN ota_codec_config_ :
    LET minbitrate == Offload16(A2DP_OFFLOAD_LHDC_CFG_MINBITRATE_L,
                                A2DP_OFFLOAD_LHDC_CFG_MINBITRATE_H)
        framedur == p_a2dp_offload.codec_info[A2DP_OFFLOAD_LHDC_CFG_FRAMEDUR]
        spec1 == p_a2dp_offload.codec_info[A2DP_OFFLOAD_LHDC_CFG_SPEC1]
    IN /\ LhdcEncoded(i, A2DP_LHDCV2_CODEC_ID)
            => (minbitrate = 0 /\ framedur = 0 /\ spec1 = 0)
       /\ LhdcEncoded(i, A2DP_LHDCV3_CODEC_ID)
            => /\ framedur = 0
               /\ minbitrate = LhdcV3MinBitRate(ota_codec_config_[i])
       /\ LhdcEncoded(i, A2DP_LHDCV5_CODEC_ID)
            => /\ framedur = A2DP_OFFLOAD_LHDC_FRAME_DURATION_5000US
               /\ minbitrate \in {A2DP_OFFLOAD_LHDC_QUALITY_LOW0,
                                   A2DP_OFFLOAD_LHDC_QUALITY_LOW1,
                                   A2DP_OFFLOAD_LHDC_QUALITY_LOW3,
                                   A2DP_OFFLOAD_LHDC_QUALITY_LOW}

\* An LHDC V3 configuration with the MIN_BR feature was encoded into a
\* structure that held non-zero bytes before the call: the frame duration
\* is zero and the minimum bit rate is LOW4.
C35_Witness ==
  \E i \in DOMAIN ota_codec_config_ :
    /\ LhdcEncoded(i, A2DP_LHDCV3_CODEC_ID)
    /\ BitAnd(At(ota_codec_config_[i], 11), A2DP_LHDC_FEATURE_MIN_BR) # 0
    /\ p_a2dp_offload.handed[A2DP_OFFLOAD_LHDC_CFG_FRAMEDUR] # 0
    /\ p_a2dp_offload.codec_info[A2DP_OFFLOAD_LHDC_CFG_FRAMEDUR] = 0
    /\ Offload16(A2DP_OFFLOAD_LHDC_CFG_MINBITRATE_L,
                 A2DP_OFFLOAD_LHDC_CFG_MINBITRATE_H)
         = A2DP_OFFLOAD_LHDC_QUALITY_LOW4

(***************************************************************************)
(* Properties of the registry's descriptors over its operations.           *)
(***************************************************************************)

\* C36 as stated: in every reachable state the codec type tag of every
\* descriptor's ota_codec_config_ is the media codec type of the
\* descriptor's codec index (SBC, AAC or non-A2DP), from construction on.
C36_OtaTagMatchesFamily ==
  \A i \in DOMAIN ota_codec_config_ :
    A2DP_GetCodecType(ota_codec_config_[i]) = CodecFamily(i)

\* C36, amended: a descriptor is constructed with an all-zero
\* ota_codec_config_, whose tag byte reads as SBC whatever the descriptor's
\* codec is; in every reachable state ota_codec_config_ is either still all
\* zero or carries the type tag of the descriptor's codec family.
C36_OtaTagMatchesOnceConfigured ==
  /\ [](\A i \in DOMAIN ota_codec_config_ :
          \/ AllZero(ota_codec_config_[i])
          \/ A2DP_GetCodecType(ota_codec_config_[i]) = CodecFamily(i))
  /\ [][ \A i \in DOMAIN ota_codec_config_' :
           i \notin DOMAIN ota_codec_config_
             => AllZero(ota_codec_config_'[i]) ]_vars

\* The AAC source descriptor has negotiated an AAC configuration while the
\* AAC sink descriptor still holds the zeroes of its construction, whose tag
\* reads as SBC.
C36_Witness ==
  /\ {BTAV_A2DP_CODEC_INDEX_SOURCE_AAC, BTAV_A2DP_CODEC_INDEX_SINK_AAC}
       \subseteq DOMAIN ota_codec_config_
  /\ ~AllZero(ota_codec_config_[BTAV_A2DP_CODEC_INDEX_SOURCE_AAC])
  /\ A2DP_GetCodecType(ota_codec_config_[BTAV_A2DP_CODEC_INDEX_SOURCE_AAC])
       = A2DP_MEDIA_CT_AAC
  /\ AllZero(ota_codec_config_[BTAV_A2DP_CODEC_INDEX_SINK_AAC])
  /\ A2DP_GetCodecType(ota_codec_config_[BTAV_A2DP_CODEC_INDEX_SINK_AAC])
       # CodecFamily(BTAV_A2DP_CODEC_INDEX_SINK_AAC)

\* C37: once current_codec_config_ is a descriptor it is never nullptr
\* again: no registry operation (setCodecConfig, setSinkCodecConfig,
\* setCodecUserConfig, setCodecAudioConfig, setCodecOtaConfig,
\* setPeerSinkCodecCapabilities, setPeerSourceCodecCapabilities), whether it
\* succeeds or fails, returns with nullptr when it was entered with a
\* descriptor.
C37_CurrentStaysSet ==
  [][ current_codec_config_ # nullptr => current_codec_config_' # nullptr ]_vars

\* A setCodecUserConfig entered with a current descriptor has failed and
\* the registry still has that descriptor as the current one.
C37_Witness ==
  /\ call.op = "setCodecUserConfig"
  /\ ~call.ret
  /\ call.last_codec_config # nullptr
  /\ current_codec_config_ = call.last_codec_config

\* Descriptor lhs stands before descriptor rhs in the list.
RanksBefore(list, lhs, rhs) ==
  \E k, l \in 1 .. Len(list) : k < l /\ list[k] = lhs /\ list[l] = rhs

\* C38: after a successful setCodecUserConfig that switched the current
\* codec from one source descriptor to another, the new current descriptor
\* has a higher priority than the demoted previous one, or the same priority
\* and a larger codec index, and stands before it in ordered_source_codecs_;
\* so also when the previous current codec's priority had been lowered below
\* its default before the switch.
C38_SwitchRanksNewCurrentFirst ==
  [][ LET t == call'.a2dp_codec_config
          cur == current_codec_config_
      IN ( /\ UserCall(call') /\ call'.ret
           /\ cur # nullptr /\ t # cur
           /\ current_codec_config_' = t
           /\ \E k, l \in 1 .. Len(ordered_source_codecs_) :
                ordered_source_codecs_[k] = t /\ ordered_source_codecs_[l] = cur )
         => ( /\ compare_codec_priority(codec_priority_', t, cur)
              /\ RanksBefore(ordered_source_codecs_', t, cur) ) ]_vars

C40_ReadsWithinBuffer ==
  call.op = "getLHDCCodecUserConfig" =>
    /\ \A offset \in call.read : offset < call.clen
    /\ ( /\ ~call.delegated
         /\ call.clen < LHDC_EXTEND_FUNC_CONFIG_TOTAL_FIXED_SIZE_V1 )
         => call.result = BT_STATUS_FAIL

====
